---- MODULE Spec2Model ----
(***************************************************************************)
(* State-machine model of the two cores of the recorder:                   *)
(*   - the capture channel: GLFrameGrabber::GrabFrame (producer) writing   *)
(*     frames into the shared-memory ring read by the recorder (consumer); *)
(*   - the muxer: Muxer's lifecycle methods, the encoder-facing calls      *)
(*     AddPacket/EndStream and Muxer::MuxerThread (the worker).            *)
(* Shared memory is modelled sequentially consistent: every fenced group   *)
(* of header accesses and every locked section is one atomic step, and the *)
(* steps of different processes/threads interleave freely.                 *)
(***************************************************************************)
EXTENDS Integers, Sequences, FiniteSets, TLC

\* ------------------------------------------------------------------ bounds
MaxRing == 2            \* largest ring_buffer_size explored
MaxGrabs == 4           \* GrabFrame calls explored per behaviour
MaxTime == 1            \* last clock reading (microseconds) explored
MaxPackets == 2         \* packets each encoder emits
ScenarioPackets == 4    \* packets per stream in the two-stream interleave scenario
MaxPacedGrabs == 5      \* GrabFrame calls explored per behaviour when pacing is on

\* ------------------------------------------------------- helper arithmetic
Max(a, b) == IF a >= b THEN a ELSE b
Min(a, b) == IF a <= b THEN a ELSE b

\* Global.h: grow_align16(x) = (x + 15) & ~15.  The explored widths are far
\* below 2^30, so the unsigned 32-bit product width * 4 does not wrap here.
grow_align16(x) == ((x + 15) \div 16) * 16

\* C's x % y on ints: the remainder takes the sign of x
Rem(x, y) == IF x >= 0 THEN x % y ELSE -((-x) % y)

\* Global.h: positive_mod(x, y): the remainder moved into [0, y)
positive_mod(x, y) == LET z == Rem(x, y) IN IF z < 0 THEN z + y ELSE z

\* the window geometries XGetGeometry may report: too small, fitting, too large
WindowSizes == {<<1, 2>>, <<2, 2>>, <<2, 5>>}
\* payload segment sizes the recorder may publish (bytes)
MaxBytesValues == {64}
\* target_fps values published by the recorder: 0 = no pacing
TargetFpsValues == {0}
\* flag bitsets explored
FlagSets == {{}, {"RECORD_CURSOR"}}

VARIABLES
  header,      \* GLInjectHeader in the main shared segment
  frameinfo,   \* GLInjectFrameInfo table: slot -> descriptor
  frames,      \* payload segments: slot -> image content
  grabber,     \* GLFrameGrabber members (producer-private)
  gf,          \* GrabFrame activation: program position and locals
  consumer,    \* the recorder's reader of the ring
  now,         \* hrt_time_micro(): monotonic clock
  attach,      \* the GLFrameGrabber constructor: what the environment supplies,
               \* its position, the exit status of the process
  hotkey,      \* GetHotkeyInfo/TriggerHotkey activations and the recorder's
               \* writer of the hotkey configuration
  caller,      \* the hooked buffer-swap call site: when it last let time pass
  muxer,       \* Muxer members: m_started, m_format_context, m_thread, flags
  m_encoders,  \* Muxer::m_encoders: stream index -> encoder pointer
  m_stream_data, \* Muxer::m_stream_data: stream index -> {m_is_done, m_packet_queue}
  m_shared_data, \* Muxer::m_shared_data: byte counter and bit-rate window
  mt,          \* MuxerThread activation: program position and locals
  container,   \* the AVFormatContext: streams, output position, calls received
  encoders,    \* the encoder objects bound to the streams
  owner        \* the thread that constructs, starts, finishes and destroys the muxer

hostvars == <<attach, hotkey, caller>>
ringvars == <<header, frameinfo, frames, grabber, gf, consumer, now,
          attach, hotkey, caller,
              attach, hotkey, caller>>
muxvars == <<muxer, m_encoders, m_stream_data, m_shared_data, mt, container,
             encoders, owner>>
vars == <<header, frameinfo, frames, grabber, gf, consumer, now,
          attach, hotkey, caller,
          muxer, m_encoders, m_stream_data, m_shared_data, mt, container,
          encoders, owner>>

\* ring geometry as the grabber cached it in its constructor
N == grabber.m_ring_buffer_size
Slots == 0 .. (N - 1)

\* number of unread frames, as both sides compute it
FramesReady(rp, wp) == positive_mod(wp - rp, N * 2)

NoImage == [frame |-> 0, cursor |-> FALSE]
NoInfo == [timestamp |-> 0, width |-> 0, height |-> 0, frame |-> 0]

\* ---------------------------------------------------------------- Init
\* ShmStructs.h (not among the sources): sizes of the header block and of one
\* slot descriptor in the main segment; only their being positive matters
SizeofHeader == 64
SizeofFrameInfo == 16
\* the exit status of every fatal constructor error
EXIT_STATUS == -181818181
\* "no payload segment is wrong"
NoBadFrame == -1

\* the main segment size the constructor expects for n slots
MainSizeFor(n) == SizeofHeader + SizeofFrameInfo * n

\* the constructor has returned for an environment that passed every check
Attached(n) ==
  [pc |-> "constructed", i |-> n, exit_status |-> 0,
   shm_id_present |-> TRUE, main_attach_ok |-> TRUE, main_size |-> MainSizeFor(n),
   bad_frame |-> NoBadFrame, bad_kind |-> "none"]

NoHotkeyInfo == [enabled |-> 0, keycode |-> 0, modifiers |-> 0]

\* the three fields GetHotkeyInfo loads
HotkeyFields == {"enabled", "keycode", "modifiers"}

\* no hotkey call running, nothing returned yet, the recorder's writer idle.
\* held, last, previous, calls, wrote, wrote_before, counter0, presses and
\* writes are history kept for the properties: the configurations the header
\* held during the latest GetHotkeyInfo call, the values the latest two calls
\* returned, the calls returned, whether the recorder wrote since the latest
\* call began and between the beginnings of the latest two, the counter at
\* start, the TriggerHotkey calls returned, the recorder's writes.
HotkeyIdle(counter0) ==
  [ghi |-> [pc |-> "idle", todo |-> {}, info |-> NoHotkeyInfo],
   last |-> NoHotkeyInfo, previous |-> NoHotkeyInfo,
   held |-> {}, calls |-> 0, wrote |-> FALSE, wrote_before |-> FALSE,
   th |-> [pc |-> "idle", counter |-> 0],
   counter0 |-> counter0, presses |-> 0, writes |-> 0]

CallerIdle == [waited_at |-> -1, slow |-> FALSE]

\* State after the recorder created the segments and the GLFrameGrabber
\* constructor attached to them and cached the configuration; counters are
\* the values hotkey_counter may hold at that time.
InitChannelFrom(sizes, maxbytes, fpsvalues, flagsets, counters) ==
  /\ \E n \in sizes, mb \in maxbytes, fps \in fpsvalues, fl \in flagsets,
        c \in counters :
       /\ header = [ring_buffer_size |-> n, max_bytes |-> mb, target_fps |-> fps,
                    flags |-> fl, current_width |-> 0, current_height |-> 0,
                    frame_counter |-> 0, read_pos |-> 0, write_pos |-> 0,
                    hotkey_enabled |-> 0, hotkey_keycode |-> 0,
                    hotkey_modifiers |-> 0, hotkey_counter |-> c]
       /\ grabber = [m_width |-> 0, m_height |-> 0, m_next_frame_time |-> 0,
                     m_warn_too_small |-> TRUE, m_warn_too_large |-> TRUE,
                     m_ring_buffer_size |-> n, m_max_bytes |-> mb,
                     m_target_fps |-> fps, m_flags |-> fl, m_has_xfixes |-> TRUE]
       /\ attach = Attached(n)
       /\ hotkey = HotkeyIdle(c)
  /\ frameinfo = [s \in 0 .. (header.ring_buffer_size - 1) |-> NoInfo]
  /\ frames = [s \in 0 .. (header.ring_buffer_size - 1) |-> NoImage]
  /\ gf = [pc |-> "idle", read_pos |-> 0, write_pos |-> 0, timestamp |-> 0,
           image_stride |-> 0, frame |-> 0]
  /\ consumer = [pc |-> "idle", slot |-> 0, info |-> NoInfo, image |-> NoImage,
                 advanced |-> FALSE]
  /\ now = 0
  /\ caller = CallerIdle

\* the same with hotkey_counter at zero
InitChannelWith(sizes, maxbytes, fpsvalues, flagsets) ==
  InitChannelFrom(sizes, maxbytes, fpsvalues, flagsets, {0})

InitChannel(sizes, fpsvalues, flagsets) ==
  InitChannelWith(sizes, MaxBytesValues, fpsvalues, flagsets)

\* ------------------------------------------------------------ GrabFrame
\* Too small / too large tests of GrabFrame, on the stride it computes.
TooSmall(w, h) == w < 2 \/ h < 2
\* variant: the byte count tested on the unaligned row length
TooLargeUnaligned(w, h, max_bytes) ==
  w > 10000 \/ h > 10000 \/ (w * 4) * h > max_bytes

TooLarge(w, h, max_bytes) ==
  w > 10000 \/ h > 10000 \/ grow_align16(w * 4) * h > max_bytes

\* GrabFrame calls explored in a behaviour
GrabBudget == IF grabber.m_target_fps > 0 THEN MaxPacedGrabs ELSE MaxGrabs

\* variant: only frames of usable size are counted and have their geometry
\* published
GrabFrameBeginCountingUsable(w, h) ==
  /\ gf.pc = "idle"
  /\ attach.pc = "constructed"
  /\ header.frame_counter < GrabBudget
  /\ grabber' = [grabber EXCEPT
        !.m_width = w, !.m_height = h,
        !.m_warn_too_small = IF TooSmall(w, h) THEN FALSE ELSE @,
        !.m_warn_too_large =
            IF ~TooSmall(w, h) /\ TooLarge(w, h, grabber.m_max_bytes) THEN FALSE ELSE @]
  /\ IF TooSmall(w, h) \/ TooLarge(w, h, grabber.m_max_bytes)
     THEN UNCHANGED <<header, gf>>
     ELSE /\ header' = [header EXCEPT !.current_width = w, !.current_height = h,
                                      !.frame_counter = @ + 1]
          /\ gf' = [gf EXCEPT !.pc = "ring", !.image_stride = grow_align16(w * 4),
                              !.frame = header.frame_counter + 1]
  /\ UNCHANGED <<frameinfo, frames, consumer, now>>
  /\ UNCHANGED <<hostvars, muxvars>>

\* GrabFrame, entry to the size checks: read the geometry, publish it and
\* count the grab in the header, reject frames of unusable size.
GrabFrameBegin(w, h) ==
  /\ gf.pc = "idle"
  /\ attach.pc = "constructed"
  /\ header.frame_counter < GrabBudget
  /\ header' = [header EXCEPT !.current_width = w, !.current_height = h,
                               !.frame_counter = @ + 1]
  /\ grabber' = [grabber EXCEPT
        !.m_width = w, !.m_height = h,
        !.m_warn_too_small = IF TooSmall(w, h) THEN FALSE ELSE @,
        !.m_warn_too_large =
            IF ~TooSmall(w, h) /\ TooLarge(w, h, grabber.m_max_bytes) THEN FALSE ELSE @]
  /\ gf' = IF TooSmall(w, h) \/ TooLarge(w, h, grabber.m_max_bytes)
           THEN [gf EXCEPT !.pc = "idle"]
           ELSE [gf EXCEPT !.pc = "ring", !.image_stride = grow_align16(w * 4),
                           !.frame = header.frame_counter + 1]
  /\ UNCHANGED <<frameinfo, frames, consumer, now>>
  /\ UNCHANGED <<hostvars, muxvars>>

\* variant: the fullness test off by one (> instead of >=)
RingFullOffByOne(rp, wp) == FramesReady(rp, wp) > N

\* "is there space in the ring buffer?": the fullness test on the cursors read
RingFull(rp, wp) == FramesReady(rp, wp) >= N

\* variant: the write cursor wrapped at ring_buffer_size instead of twice it
NextWritePosModRing(wp) == (wp + 1) % N

\* the write cursor after publishing one frame
NextWritePos(wp) == (wp + 1) % (N * 2)

\* variant: the frame written to the slot after the one write_pos names
CurrentFrameAhead(wp) == (wp + 1) % N

\* the slot a frame is written to
CurrentFrame(wp) == wp % N

\* variant: the pacing cursor restarted from the clock, one delay after the
\* frame that passed
NextFrameTimeFromNow(next, t) == t + (1000000 \div grabber.m_target_fps)

\* the pacing cursor after a frame passed the pacing step at time t
NextFrameTime(next, t) == Max(next + (1000000 \div grabber.m_target_fps), t)

\* variant: on a full ring the producer frees the oldest slot itself
GrabFrameCheckRingDropOldest ==
  /\ gf.pc = "ring"
  /\ IF RingFull(header.read_pos, header.write_pos)
     THEN /\ header' = [header EXCEPT !.read_pos = (@ + 1) % (N * 2)]
          /\ gf' = [gf EXCEPT !.pc = "idle", !.read_pos = header.read_pos,
                              !.write_pos = header.write_pos]
     ELSE /\ gf' = [gf EXCEPT !.pc = "info", !.read_pos = header.read_pos,
                              !.write_pos = header.write_pos, !.timestamp = now]
          /\ UNCHANGED header
  /\ UNCHANGED <<frameinfo, frames, grabber, consumer, now>>
  /\ UNCHANGED <<hostvars, muxvars>>

\* GrabFrame, ring-space check and pacing: read both cursors; drop the frame
\* when the ring is full; with target_fps > 0 sleep (LIMIT_FPS) or drop when
\* the frame is early.
GrabFrameCheckRing ==
  /\ gf.pc = "ring"
  /\ LET rp == header.read_pos
         wp == header.write_pos
         early == grabber.m_target_fps > 0 /\ now < grabber.m_next_frame_time
     IN IF RingFull(rp, wp)
        THEN /\ gf' = [gf EXCEPT !.pc = "idle", !.read_pos = rp, !.write_pos = wp]
             /\ UNCHANGED grabber
        ELSE IF early /\ "LIMIT_FPS" \in grabber.m_flags
        THEN /\ gf' = [gf EXCEPT !.pc = "sleep", !.read_pos = rp, !.write_pos = wp,
                                 !.timestamp = now]
             /\ UNCHANGED grabber
        ELSE IF early
        THEN /\ gf' = [gf EXCEPT !.pc = "idle", !.read_pos = rp, !.write_pos = wp,
                                 !.timestamp = now]
             /\ UNCHANGED grabber
        ELSE /\ gf' = [gf EXCEPT !.pc = "info", !.read_pos = rp, !.write_pos = wp,
                                 !.timestamp = now]
             /\ grabber' = IF grabber.m_target_fps > 0
                           THEN [grabber EXCEPT !.m_next_frame_time = NextFrameTime(@, now)]
                           ELSE grabber
  /\ UNCHANGED <<header, frameinfo, frames, consumer, now>>
  /\ UNCHANGED <<hostvars, muxvars>>

\* variant: the pacing cursor left where it was after the sleep
GrabFrameWakeKeepingCursor ==
  /\ gf.pc = "sleep"
  /\ now >= grabber.m_next_frame_time
  /\ gf' = [gf EXCEPT !.pc = "info", !.timestamp = now]
  /\ UNCHANGED <<header, frameinfo, frames, grabber, consumer, now>>
  /\ UNCHANGED <<hostvars, muxvars>>

\* GrabFrame, end of usleep(m_next_frame_time - timestamp): the clock is read
\* again and the pacing cursor advanced.
GrabFrameWake ==
  /\ gf.pc = "sleep"
  /\ now >= grabber.m_next_frame_time
  /\ gf' = [gf EXCEPT !.pc = "info", !.timestamp = now]
  /\ grabber' = [grabber EXCEPT !.m_next_frame_time = NextFrameTime(@, now)]
  /\ UNCHANGED <<header, frameinfo, frames, consumer, now>>
  /\ UNCHANGED <<hostvars, muxvars>>

\* variant: write_pos advanced as soon as the descriptor is filled, before the
\* pixels are read into the payload
GrabFrameWriteInfoThenPublish ==
  /\ gf.pc = "info"
  /\ frameinfo' = [frameinfo EXCEPT ![gf.write_pos % N] =
        [timestamp |-> gf.timestamp, width |-> grabber.m_width,
         height |-> grabber.m_height, frame |-> gf.frame]]
  /\ header' = [header EXCEPT !.write_pos = (gf.write_pos + 1) % (N * 2)]
  /\ gf' = [gf EXCEPT !.pc = "pixels"]
  /\ UNCHANGED <<frames, grabber, consumer, now>>
  /\ UNCHANGED <<hostvars, muxvars>>

\* GrabFrame, "initialize the frame": fill the slot descriptor.
GrabFrameWriteInfo ==
  /\ gf.pc = "info"
  /\ frameinfo' = [frameinfo EXCEPT ![CurrentFrame(gf.write_pos)] =
        [timestamp |-> gf.timestamp, width |-> grabber.m_width,
         height |-> grabber.m_height, frame |-> gf.frame]]
  /\ gf' = [gf EXCEPT !.pc = "pixels"]
  /\ UNCHANGED <<header, frames, grabber, consumer, now>>
  /\ UNCHANGED <<hostvars, muxvars>>

\* GrabFrame, "capture the frame": glReadPixels into the payload segment.
GrabFrameReadPixels ==
  /\ gf.pc = "pixels"
  /\ frames' = [frames EXCEPT ![CurrentFrame(gf.write_pos)] =
        [frame |-> gf.frame, cursor |-> FALSE]]
  /\ gf' = [gf EXCEPT !.pc =
        IF "RECORD_CURSOR" \in grabber.m_flags /\ grabber.m_has_xfixes
        THEN "cursor" ELSE "publish"]
  /\ UNCHANGED <<header, frameinfo, grabber, consumer, now>>
  /\ UNCHANGED <<hostvars, muxvars>>

\* GrabFrame, "draw the cursor": GLImageDrawCursor composites over the payload
\* (drawn) unless XTranslateCoordinates or XFixesGetCursorImage fails.
GrabFrameDrawCursor(drawn) ==
  /\ gf.pc = "cursor"
  /\ frames' = [frames EXCEPT ![CurrentFrame(gf.write_pos)].cursor = drawn]
  /\ gf' = [gf EXCEPT !.pc = "publish"]
  /\ UNCHANGED <<header, frameinfo, grabber, consumer, now>>
  /\ UNCHANGED <<hostvars, muxvars>>

\* GrabFrame, "go to the next frame": advance write_pos and return.
GrabFramePublish ==
  /\ gf.pc = "publish"
  /\ header' = [header EXCEPT !.write_pos = NextWritePos(gf.write_pos)]
  /\ gf' = [gf EXCEPT !.pc = "idle"]
  /\ UNCHANGED <<frameinfo, frames, grabber, consumer, now>>
  /\ UNCHANGED <<hostvars, muxvars>>

\* ------------------------------------------------------------- consumer
\* The recorder side of the ring: it looks at the cursors, reads the slot at
\* read_pos mod N when a frame is unread, and only then advances read_pos.
ConsumerPoll ==
  /\ consumer.pc = "idle"
  /\ FramesReady(header.read_pos, header.write_pos) > 0
  /\ consumer' = [consumer EXCEPT !.pc = "info", !.slot = header.read_pos % N]
  /\ UNCHANGED <<header, frameinfo, frames, grabber, gf, now>>
  /\ UNCHANGED <<hostvars, muxvars>>

ConsumerReadInfo ==
  /\ consumer.pc = "info"
  /\ consumer' = [consumer EXCEPT !.pc = "image", !.info = frameinfo[consumer.slot]]
  /\ UNCHANGED <<header, frameinfo, frames, grabber, gf, now>>
  /\ UNCHANGED <<hostvars, muxvars>>

ConsumerReadImage ==
  /\ consumer.pc = "image"
  /\ consumer' = [consumer EXCEPT !.pc = "advance", !.image = frames[consumer.slot]]
  /\ UNCHANGED <<header, frameinfo, frames, grabber, gf, now>>
  /\ UNCHANGED <<hostvars, muxvars>>

ConsumerAdvance ==
  /\ consumer.pc = "advance"
  /\ header' = [header EXCEPT !.read_pos = (@ + 1) % (N * 2)]
  /\ consumer' = [consumer EXCEPT !.pc = "idle", !.advanced = TRUE]
  /\ UNCHANGED <<frameinfo, frames, grabber, gf, now>>
  /\ UNCHANGED <<hostvars, muxvars>>

\* the clock advances
Tick ==
  /\ now < MaxTime
  /\ now' = now + 1
  /\ UNCHANGED <<header, frameinfo, frames, grabber, gf, consumer>>
  /\ UNCHANGED <<hostvars, muxvars>>

\* --------------------------------------------------- the clock under pacing
\* times (microseconds) the host lets pass before its first GrabFrame call and
\* between two calls, and the lateness of usleep
StartDelays == {0, 400000}
CallGaps == {1000, 333333}
UsleepLateness == {0, 7}
\* the longest gap of a caller that calls back to back
ShortGap == 1000

\* the host does something else between two GrabFrame calls (at most once
\* between two calls): the clock advances
CallerWaits(dt) ==
  /\ gf.pc = "idle"
  /\ attach.pc = "constructed"
  /\ caller.waited_at # header.frame_counter
  /\ dt \in (IF header.frame_counter = 0 THEN StartDelays ELSE CallGaps)
  /\ now' = now + dt
  /\ caller' = [caller EXCEPT
        !.waited_at = header.frame_counter,
        !.slow = @ \/ (header.frame_counter > 0 /\ dt > ShortGap)]
  /\ UNCHANGED <<header, frameinfo, frames, grabber, gf, consumer, attach, hotkey>>
  /\ UNCHANGED muxvars

\* usleep(m_next_frame_time - timestamp) returns: the clock has reached the
\* pacing cursor, or passed it by the lateness of the wake-up
UsleepReturns(late) ==
  /\ gf.pc = "sleep"
  /\ now < grabber.m_next_frame_time
  /\ now' = grabber.m_next_frame_time + late
  /\ UNCHANGED <<header, frameinfo, frames, grabber, gf, consumer>>
  /\ UNCHANGED <<hostvars, muxvars>>

\* ------------------------------------------------------- hotkey sub-protocol
MaxHotkeyCalls == 2     \* GetHotkeyInfo calls explored per behaviour
MaxHotkeyWrites == 2    \* recorder stores to the hotkey configuration explored
MaxPresses == 2         \* TriggerHotkey calls explored per behaviour
MaxHotkeyGrabs == 1     \* GrabFrame calls interleaved with the hotkey calls

\* values the recorder may store in a hotkey configuration field
HotkeyValues(f) ==
  IF f = "enabled" THEN {0, 1} ELSE IF f = "keycode" THEN {0, 38} ELSE {0, 4}

\* the hotkey configuration a header holds
HotkeyConfig(h) ==
  [enabled |-> h.hotkey_enabled, keycode |-> h.hotkey_keycode,
   modifiers |-> h.hotkey_modifiers]

\* the value a load of field f takes from the header
HotkeyLoad(f) ==
  IF f = "enabled" THEN header.hotkey_enabled
  ELSE IF f = "keycode" THEN header.hotkey_keycode
  ELSE header.hotkey_modifiers

\* the header after the recorder stored v in field f
HotkeyStored(f, v) ==
  IF f = "enabled" THEN [header EXCEPT !.hotkey_enabled = v]
  ELSE IF f = "keycode" THEN [header EXCEPT !.hotkey_keycode = v]
  ELSE [header EXCEPT !.hotkey_modifiers = v]

\* GetHotkeyInfo is entered: nothing loaded yet.
GetHotkeyInfoBegin ==
  /\ attach.pc = "constructed"
  /\ hotkey.ghi.pc = "idle"
  /\ hotkey.calls < MaxHotkeyCalls
  /\ hotkey' = [hotkey EXCEPT
        !.ghi = [pc |-> "loading", todo |-> HotkeyFields, info |-> NoHotkeyInfo],
        !.held = {HotkeyConfig(header)},
        !.wrote_before = hotkey.wrote,
        !.wrote = FALSE]
  /\ UNCHANGED <<header, frameinfo, frames, grabber, gf, consumer, now, attach, caller>>
  /\ UNCHANGED muxvars

\* GetHotkeyInfo, one of the three plain loads between the fences (the
\* compiler is free to order them): info.f = header->hotkey_f.
GetHotkeyInfoLoad(f) ==
  /\ hotkey.ghi.pc = "loading"
  /\ f \in hotkey.ghi.todo
  /\ hotkey' = [hotkey EXCEPT
        !.ghi.info = [@ EXCEPT ![f] = HotkeyLoad(f)],
        !.ghi.todo = @ \ {f}]
  /\ UNCHANGED <<header, frameinfo, frames, grabber, gf, consumer, now, attach, caller>>
  /\ UNCHANGED muxvars

\* GetHotkeyInfo returns info.
GetHotkeyInfoReturn ==
  /\ hotkey.ghi.pc = "loading"
  /\ hotkey.ghi.todo = {}
  /\ hotkey' = [hotkey EXCEPT
        !.ghi.pc = "idle",
        !.previous = hotkey.last,
        !.last = hotkey.ghi.info,
        !.calls = @ + 1]
  /\ UNCHANGED <<header, frameinfo, frames, grabber, gf, consumer, now, attach, caller>>
  /\ UNCHANGED muxvars

\* The recorder stores one field of the hotkey configuration it advertises.
RecorderWritesHotkey(f, v) ==
  /\ hotkey.writes < MaxHotkeyWrites
  /\ v \in HotkeyValues(f)
  /\ header' = HotkeyStored(f, v)
  /\ hotkey' = [hotkey EXCEPT
        !.writes = @ + 1,
        !.wrote = TRUE,
        !.held = IF hotkey.ghi.pc = "loading"
                 THEN @ \cup {HotkeyConfig(HotkeyStored(f, v))} ELSE @]
  /\ UNCHANGED <<frameinfo, frames, grabber, gf, consumer, now, attach, caller>>
  /\ UNCHANGED muxvars

\* TriggerHotkey, ++header->hotkey_counter: the load.
TriggerHotkeyLoad ==
  /\ attach.pc = "constructed"
  /\ hotkey.th.pc = "idle"
  /\ hotkey.presses < MaxPresses
  /\ hotkey' = [hotkey EXCEPT !.th = [pc |-> "loaded", counter |-> header.hotkey_counter]]
  /\ UNCHANGED <<header, frameinfo, frames, grabber, gf, consumer, now, attach, caller>>
  /\ UNCHANGED muxvars

\* variant: the press is reported only while the hotkey is enabled
TriggerHotkeyStoreWhenEnabled ==
  /\ hotkey.th.pc = "loaded"
  /\ header' = IF header.hotkey_enabled # 0
               THEN [header EXCEPT !.hotkey_counter = hotkey.th.counter + 1]
               ELSE header
  /\ hotkey' = [hotkey EXCEPT !.th.pc = "idle", !.presses = @ + 1]
  /\ UNCHANGED <<frameinfo, frames, grabber, gf, consumer, now, attach, caller>>
  /\ UNCHANGED muxvars

\* TriggerHotkey, ++header->hotkey_counter: the store, and the return.
TriggerHotkeyStore ==
  /\ hotkey.th.pc = "loaded"
  /\ header' = [header EXCEPT !.hotkey_counter = hotkey.th.counter + 1]
  /\ hotkey' = [hotkey EXCEPT !.th.pc = "idle", !.presses = @ + 1]
  /\ UNCHANGED <<frameinfo, frames, grabber, gf, consumer, now, attach, caller>>
  /\ UNCHANGED muxvars

\* ------------------------------------------------------------- constructor
\* limits the constructor puts on the configuration it reads
MaxRingBufferSize == 1000
MaxMaxBytes == 1073741824

\* variant: a ring of zero slots is accepted
RingSizeInvalidAboveOnly(n) == n > MaxRingBufferSize

\* "Ring buffer size %u is invalid": the field is unsigned, <= 0 is == 0
RingSizeInvalid(n) == n <= 0 \/ n > MaxRingBufferSize

\* "Maximum byte count %u is invalid"
MaxBytesInvalid(b) == b > MaxMaxBytes

\* the process is ended by exit(-181818181)
Exited == [attach EXCEPT !.pc = "exited", !.exit_status = EXIT_STATUS]

\* "read environment variables": SSR_GLINJECT_SHM must be set.
ConstructorReadEnv ==
  /\ attach.pc = "env"
  /\ attach' = IF ~attach.shm_id_present THEN Exited
               ELSE [attach EXCEPT !.pc = "main"]
  /\ UNCHANGED <<header, frameinfo, frames, grabber, gf, consumer, now, hotkey, caller>>
  /\ UNCHANGED muxvars

\* "get main shared memory": shmat must succeed and the segment must hold a
\* header.
ConstructorAttachMain ==
  /\ attach.pc = "main"
  /\ attach' = IF ~attach.main_attach_ok \/ attach.main_size < SizeofHeader
               THEN Exited
               ELSE [attach EXCEPT !.pc = "header"]
  /\ UNCHANGED <<header, frameinfo, frames, grabber, gf, consumer, now, hotkey, caller>>
  /\ UNCHANGED muxvars

\* "read the header": cache the configuration and check the ring size, the
\* byte cap and the size of the main segment.
ConstructorReadHeader ==
  /\ attach.pc = "header"
  /\ grabber' = [grabber EXCEPT
        !.m_ring_buffer_size = header.ring_buffer_size,
        !.m_max_bytes = header.max_bytes,
        !.m_target_fps = header.target_fps,
        !.m_flags = header.flags]
  /\ attach' = IF \/ RingSizeInvalid(header.ring_buffer_size)
                  \/ MaxBytesInvalid(header.max_bytes)
                  \/ attach.main_size # MainSizeFor(header.ring_buffer_size)
               THEN Exited
               ELSE [attach EXCEPT !.pc = "frames", !.i = 0]
  /\ UNCHANGED <<header, frameinfo, frames, gf, consumer, now, hotkey, caller>>
  /\ UNCHANGED muxvars

\* "get frame shared memory", one iteration: the payload segment of slot i
\* must attach and be max_bytes long.
ConstructorAttachFrame ==
  /\ attach.pc = "frames"
  /\ attach.i < grabber.m_ring_buffer_size
  /\ attach' = IF attach.bad_frame = attach.i THEN Exited
               ELSE [attach EXCEPT !.i = @ + 1]
  /\ UNCHANGED <<header, frameinfo, frames, grabber, gf, consumer, now, hotkey, caller>>
  /\ UNCHANGED muxvars

\* the loop is over: the constructor returns.
ConstructorReturn ==
  /\ attach.pc = "frames"
  /\ attach.i = grabber.m_ring_buffer_size
  /\ attach' = [attach EXCEPT !.pc = "constructed"]
  /\ UNCHANGED <<header, frameinfo, frames, grabber, gf, consumer, now, hotkey, caller>>
  /\ UNCHANGED muxvars

\* ===================================================================== muxer
\* Muxer.h: capacity of the stream table (the header is not among the
\* sources; the constructor and CreateStream use it)
MUXER_MAX_STREAMS == 2
\* "no stream selected" (the unsigned value -1)
INVALID_STREAM == -1
\* AV_NOPTS_VALUE: "timestamp unknown"
AV_NOPTS_VALUE == -1000000
\* NOPTS_DOUBLE: "no statistics window yet" (-DBL_MAX)
NOPTS_DOUBLE == -2000000000
\* std::numeric_limits<double>::max(): above every pts
DBL_MAX == 2000000000

StreamIds == 0 .. (MUXER_MAX_STREAMS - 1)

\* time bases <<num, den>> in use: whole and half seconds, and milliseconds
TimeBases == {<<1, 1>>, <<1, 2>>, <<1, 1000>>}
\* seconds are counted in units of 1/SecondUnits, the least common multiple of
\* the denominators in use, so that pts * time_base is exact
SecondUnits ==
  LET dens == {tb[2] : tb \in TimeBases}
  IN CHOOSE u \in 1 .. 1000 :
       /\ \A d \in dens : u % d = 0
       /\ \A v \in 1 .. (u - 1) : \E d \in dens : v % d # 0

\* ToDouble(pts) * ToDouble(time_base), in units of 1/SecondUnits seconds
Seconds(ticks, tb) == (ticks * tb[1] * SecondUnits) \div tb[2]

\* libavutil av_rescale_q(a, bq, cq): a * bq / cq rounded to nearest, halfway
\* cases away from zero
av_rescale_q(a, bq, cq) ==
  LET b == bq[1] * cq[2]
      c == cq[1] * bq[2]
  IN IF a >= 0 THEN (a * b + (c \div 2)) \div c
               ELSE -(((-a) * b + (c \div 2)) \div c)

\* the packets an encoder emits: packet k (k = 1 .. count) carries
\* pts = dts = first + (k - 1) * step in the codec time base, or no timestamps
TimedPlan(first, step, count) ==
  [first |-> first, step |-> step, count |-> count, nopts |-> FALSE]
UntimedPlan(count) == [first |-> 0, step |-> 0, count |-> count, nopts |-> TRUE]
NoPlan == [first |-> 0, step |-> 0, count |-> 0, nopts |-> FALSE]

PlanPacket(plan, k) ==
  [id |-> k,
   pts |-> IF plan.nopts THEN AV_NOPTS_VALUE ELSE plan.first + (k - 1) * plan.step,
   dts |-> IF plan.nopts THEN AV_NOPTS_VALUE ELSE plan.first + (k - 1) * plan.step,
   stream_index |-> 0,
   free_on_destruct |-> TRUE]

NoPacket == [id |-> 0, pts |-> 0, dts |-> 0, stream_index |-> 0,
             free_on_destruct |-> FALSE]
NoStream == [pts |-> 0, time_base |-> <<1, 1>>, codec_time_base |-> <<1, 1>>,
             header_time_base |-> <<1, 1>>]

\* the kinds of stream explored: the codec time base the encoder sets, the
\* time base the container gives the stream when the header is written, and
\* the packets the encoder will emit
StreamProfiles ==
  {[codec_time_base |-> <<1, 1>>, time_base |-> <<1, 2>>,
    plan |-> TimedPlan(0, 1, MaxPackets)],
   [codec_time_base |-> <<1, 2>>, time_base |-> <<1, 1>>,
    plan |-> TimedPlan(1, 1, MaxPackets)],
   [codec_time_base |-> <<1, 2>>, time_base |-> <<1, 2>>,
    plan |-> UntimedPlan(MaxPackets)]}
MtIdle == [pc |-> "none", i |-> 0, oldest_stream |-> INVALID_STREAM,
           oldest_pts |-> 0, packet |-> NoPacket]

\* the state of the activation at the top of the for(;;) loop
MtLoopStart == [pc |-> "scan", i |-> 0, oldest_stream |-> INVALID_STREAM,
                oldest_pts |-> DBL_MAX, packet |-> NoPacket]

\* Muxer::Muxer with a successful Init: the state after construction
InitMuxer ==
  /\ muxer = [m_started |-> FALSE, m_format_context |-> "open",
              m_is_done |-> FALSE, m_error_occurred |-> FALSE, m_thread |-> "none"]
  /\ m_encoders = [i \in StreamIds |-> "NULL"]
  /\ m_stream_data = [i \in StreamIds |-> [m_is_done |-> FALSE, m_packet_queue |-> <<>>]]
  /\ m_shared_data = [m_total_bytes |-> 0, m_stats_actual_bit_rate |-> <<0, 1>>,
                      m_stats_previous_pts |-> NOPTS_DOUBLE,
                      m_stats_previous_bytes |-> 0]
  /\ mt = MtIdle
  /\ container = [nb_streams |-> 0, streams |-> [i \in StreamIds |-> NoStream],
                  pos |-> 0, pb |-> "open", log |-> <<>>]
  /\ encoders = [i \in StreamIds |->
                   [state |-> "none", stop_requested |-> FALSE,
                    finish_requested |-> FALSE, produced |-> 0, plan |-> NoPlan]]
  /\ owner = [pc |-> "setup"]

\* ------------------------------------------------------- lifecycle methods
\* Muxer::CreateStream: a new stream gets the next index; the encoder created
\* for it then sets the codec time base
CreateStream(profile) ==
  /\ owner.pc = "setup"
  /\ ~muxer.m_started
  /\ container.nb_streams < MUXER_MAX_STREAMS
  /\ container' = [container EXCEPT
        !.streams[container.nb_streams] =
            [pts |-> 0, time_base |-> profile.codec_time_base,
             codec_time_base |-> profile.codec_time_base,
             header_time_base |-> profile.time_base],
        !.nb_streams = @ + 1]
  /\ encoders' = [encoders EXCEPT ![container.nb_streams].plan = profile.plan]
  /\ UNCHANGED <<muxer, m_encoders, m_stream_data, m_shared_data, mt, owner>>
  /\ UNCHANGED ringvars

\* Muxer::RegisterEncoder
RegisterEncoder(stream_index) ==
  /\ owner.pc = "setup"
  /\ ~muxer.m_started
  /\ stream_index < container.nb_streams
  /\ m_encoders[stream_index] = "NULL"
  /\ m_encoders' = [m_encoders EXCEPT ![stream_index] = "set"]
  /\ encoders' = [encoders EXCEPT ![stream_index].state = "running"]
  /\ UNCHANGED <<muxer, m_stream_data, m_shared_data, mt, container, owner>>
  /\ UNCHANGED ringvars

\* a Start that marks the muxer started and spawns the thread without looking
\* at the result of the header write
StartBeforeHeaderCheck(header_ok) ==
  /\ owner.pc = "setup"
  /\ ~muxer.m_started
  /\ \A i \in 0 .. (container.nb_streams - 1) : m_encoders[i] # "NULL"
  /\ container' = [container EXCEPT
        !.log = Append(@, [op |-> "header", ok |-> header_ok]),
        !.pos = IF header_ok THEN @ + 1 ELSE @]
  /\ muxer' = [muxer EXCEPT !.m_started = TRUE, !.m_thread = "joinable"]
  /\ mt' = MtLoopStart
  /\ owner' = [owner EXCEPT !.pc = IF header_ok THEN "started" ELSE "failed"]
  /\ UNCHANGED <<m_encoders, m_stream_data, m_shared_data, encoders>>
  /\ UNCHANGED ringvars

\* Muxer::Start: write the header (which fixes the streams' time bases), then
\* mark the muxer started and spawn MuxerThread; a failed header write throws
\* before either.
Start(header_ok) ==
  /\ owner.pc = "setup"
  /\ ~muxer.m_started
  /\ \A i \in 0 .. (container.nb_streams - 1) : m_encoders[i] # "NULL"
  /\ container' = [container EXCEPT
        !.log = Append(@, [op |-> "header", ok |-> header_ok]),
        !.pos = IF header_ok THEN @ + 1 ELSE @,
        !.streams = [i \in StreamIds |->
            IF header_ok /\ i < container.nb_streams
            THEN [container.streams[i] EXCEPT
                    !.time_base = container.streams[i].header_time_base]
            ELSE container.streams[i]]]
  /\ IF header_ok
     THEN /\ muxer' = [muxer EXCEPT !.m_started = TRUE, !.m_thread = "joinable"]
          /\ mt' = MtLoopStart
          /\ owner' = [owner EXCEPT !.pc = "started"]
     ELSE /\ owner' = [owner EXCEPT !.pc = "failed"]
          /\ UNCHANGED <<muxer, mt>>
  /\ UNCHANGED <<m_encoders, m_stream_data, m_shared_data, encoders>>
  /\ UNCHANGED ringvars

\* Muxer::Finish: ask every encoder to finish
Finish ==
  /\ owner.pc = "started"
  /\ muxer.m_started
  /\ \A i \in 0 .. (container.nb_streams - 1) : m_encoders[i] # "NULL"
  /\ encoders' = [i \in StreamIds |->
        IF i < container.nb_streams
        THEN [encoders[i] EXCEPT !.finish_requested = TRUE]
        ELSE encoders[i]]
  /\ owner' = [owner EXCEPT !.pc = "finishing"]
  /\ UNCHANGED <<muxer, m_encoders, m_stream_data, m_shared_data, mt, container>>
  /\ UNCHANGED ringvars

\* a destructor that stops the encoders but does not wait for the thread
DestructorStopWithoutJoin ==
  /\ owner.pc \in {"setup", "failed", "started", "finishing"}
  /\ IF muxer.m_started
     THEN encoders' = [i \in StreamIds |->
                IF i < container.nb_streams
                THEN [encoders[i] EXCEPT !.stop_requested = TRUE]
                ELSE encoders[i]]
     ELSE UNCHANGED encoders
  /\ owner' = [owner EXCEPT !.pc = "free"]
  /\ UNCHANGED <<muxer, m_encoders, m_stream_data, m_shared_data, mt, container>>
  /\ UNCHANGED ringvars

\* Muxer::~Muxer, first part: if started, Stop() every encoder and go on to
\* join the thread; otherwise go straight to Free
DestructorStop ==
  /\ owner.pc \in {"setup", "failed", "started", "finishing"}
  /\ IF muxer.m_started
     THEN /\ encoders' = [i \in StreamIds |->
                IF i < container.nb_streams
                THEN [encoders[i] EXCEPT !.stop_requested = TRUE]
                ELSE encoders[i]]
          /\ owner' = [owner EXCEPT !.pc = IF muxer.m_thread = "joinable"
                                           THEN "join" ELSE "free"]
     ELSE /\ owner' = [owner EXCEPT !.pc = "free"]
          /\ UNCHANGED encoders
  /\ UNCHANGED <<muxer, m_encoders, m_stream_data, m_shared_data, mt, container>>
  /\ UNCHANGED ringvars

\* a join that returns although MuxerThread may still be running
DestructorJoinWithoutWaiting ==
  /\ owner.pc = "join"
  /\ muxer' = [muxer EXCEPT !.m_thread = "joined"]
  /\ owner' = [owner EXCEPT !.pc = "free"]
  /\ UNCHANGED <<m_encoders, m_stream_data, m_shared_data, mt, container, encoders>>
  /\ UNCHANGED ringvars

\* Muxer::~Muxer, m_thread.join(): returns once MuxerThread has returned
DestructorJoin ==
  /\ owner.pc = "join"
  /\ mt.pc \in {"done", "error"}
  /\ muxer' = [muxer EXCEPT !.m_thread = "joined"]
  /\ owner' = [owner EXCEPT !.pc = "free"]
  /\ UNCHANGED <<m_encoders, m_stream_data, m_shared_data, mt, container, encoders>>
  /\ UNCHANGED ringvars

\* Muxer::Free, "write trailer": only if started; a failure is logged and
\* ignored
FreeTrailer(trailer_ok) ==
  /\ owner.pc = "free"
  /\ IF muxer.m_format_context # "NULL" /\ muxer.m_started
     THEN /\ container' = [container EXCEPT
                !.log = Append(@, [op |-> "trailer", ok |-> trailer_ok])]
          /\ muxer' = [muxer EXCEPT !.m_started = FALSE]
     ELSE /\ trailer_ok
          /\ UNCHANGED <<container, muxer>>
  /\ owner' = [owner EXCEPT !.pc = IF muxer.m_format_context # "NULL"
                                   THEN "free_encoders" ELSE "freed"]
  /\ UNCHANGED <<m_encoders, m_stream_data, m_shared_data, mt, encoders>>
  /\ UNCHANGED ringvars

\* Muxer::Free, "destroy the encoders"
FreeEncoders ==
  /\ owner.pc = "free_encoders"
  /\ m_encoders' = [i \in StreamIds |->
        IF i < container.nb_streams THEN "NULL" ELSE m_encoders[i]]
  /\ encoders' = [i \in StreamIds |->
        IF i < container.nb_streams /\ m_encoders[i] # "NULL"
        THEN [encoders[i] EXCEPT !.state = "deleted"]
        ELSE encoders[i]]
  /\ owner' = [owner EXCEPT !.pc = "free_close"]
  /\ UNCHANGED <<muxer, m_stream_data, m_shared_data, mt, container>>
  /\ UNCHANGED ringvars

\* Muxer::Free, "close file" and "free everything"
FreeClose ==
  /\ owner.pc = "free_close"
  /\ container' = [container EXCEPT
        !.log = IF container.pb # "NULL" THEN Append(@, [op |-> "close", ok |-> TRUE]) ELSE @,
        !.pb = "NULL"]
  /\ muxer' = [muxer EXCEPT !.m_format_context = "NULL"]
  /\ owner' = [owner EXCEPT !.pc = "freed"]
  /\ UNCHANGED <<m_encoders, m_stream_data, m_shared_data, mt, encoders>>
  /\ UNCHANGED ringvars

\* ------------------------------------------------- calls made by the encoders
\* Muxer::AddPacket, called by the encoder of the stream for its next packet
AddPacket(stream_index) ==
  /\ muxer.m_started
  /\ stream_index < container.nb_streams
  /\ encoders[stream_index].state = "running"
  /\ encoders[stream_index].produced < encoders[stream_index].plan.count
  /\ m_stream_data' = [m_stream_data EXCEPT ![stream_index].m_packet_queue =
        Append(@, PlanPacket(encoders[stream_index].plan,
                             encoders[stream_index].produced + 1))]
  /\ encoders' = [encoders EXCEPT ![stream_index].produced = @ + 1]
  /\ UNCHANGED <<muxer, m_encoders, m_shared_data, mt, container, owner>>
  /\ UNCHANGED ringvars

\* Muxer::EndStream, called by the encoder of the stream when it is complete;
\* the encoder makes no call after it
EndStream(stream_index) ==
  /\ muxer.m_format_context # "NULL"
  /\ stream_index < container.nb_streams
  /\ encoders[stream_index].state = "running"
  /\ m_stream_data' = [m_stream_data EXCEPT ![stream_index].m_is_done = TRUE]
  /\ encoders' = [encoders EXCEPT ![stream_index].state = "ended"]
  /\ UNCHANGED <<muxer, m_encoders, m_shared_data, mt, container, owner>>
  /\ UNCHANGED ringvars

\* selection variants: a done stream is skipped although packets are queued;
\* the newest instead of the oldest stream wins; a later stream wins a tie
StreamNotDone(sd) == ~sd.m_is_done
PtsNewer(pts, oldest_pts) == oldest_pts = DBL_MAX \/ pts > oldest_pts
PtsNotNewer(pts, oldest_pts) == pts <= oldest_pts

\* ------------------------------------------------------------ MuxerThread
\* variant: only a stream with queued packets is selectable
StreamHasPackets(sd) == sd.m_packet_queue # <<>>

\* "find the oldest stream that isn't done yet", the test on one stream: is
\* it selectable, and is its pts older than the oldest found so far
StreamSelectable(sd) == ~sd.m_is_done \/ sd.m_packet_queue # <<>>
PtsOlder(pts, oldest_pts) == pts < oldest_pts

\* MuxerThread, one iteration of the selection loop: under the stream's lock
MuxerThreadScan ==
  /\ mt.pc = "scan"
  /\ mt.i < container.nb_streams
  /\ LET pts == container.streams[mt.i].pts
         older == /\ StreamSelectable(m_stream_data[mt.i])
                  /\ PtsOlder(pts, mt.oldest_pts)
     IN mt' = [mt EXCEPT !.i = @ + 1,
                         !.oldest_stream = IF older THEN mt.i ELSE @,
                         !.oldest_pts = IF older THEN pts ELSE @]
  /\ UNCHANGED <<muxer, m_encoders, m_stream_data, m_shared_data, container,
                 encoders, owner>>
  /\ UNCHANGED ringvars

\* variant: m_is_done set at the end of every selection, before the test for
\* "no packets left"
MuxerThreadSelectedFlaggingFirst ==
  /\ mt.pc = "scan"
  /\ mt.i >= container.nb_streams
  /\ mt' = [mt EXCEPT !.pc = IF mt.oldest_stream = INVALID_STREAM
                             THEN "done" ELSE "pop"]
  /\ muxer' = [muxer EXCEPT !.m_is_done = TRUE]
  /\ UNCHANGED <<m_encoders, m_stream_data, m_shared_data, container, encoders, owner>>
  /\ UNCHANGED ringvars

\* MuxerThread, end of the selection loop: "if there are no packets left,
\* we're done" (leave the loop and set m_is_done), else go and get the packet
MuxerThreadSelected ==
  /\ mt.pc = "scan"
  /\ mt.i >= container.nb_streams
  /\ IF mt.oldest_stream = INVALID_STREAM
     THEN /\ mt' = [mt EXCEPT !.pc = "done"]
          /\ muxer' = [muxer EXCEPT !.m_is_done = TRUE]
     ELSE /\ mt' = [mt EXCEPT !.pc = "pop"]
          /\ UNCHANGED muxer
  /\ UNCHANGED <<m_encoders, m_stream_data, m_shared_data, container, encoders, owner>>
  /\ UNCHANGED ringvars

\* taking the newest packet of the queue instead of the oldest
QueueBack(q) == q[Len(q)]

\* the packet taken from a queue, and the queue it leaves
QueueFront(q) == Head(q)
QueueAfterPop(q) == Tail(q)

\* MuxerThread, "get the packet": under the stream's lock pop the front of
\* the selected queue; with an empty queue sleep 10 ms and start over
MuxerThreadPop ==
  /\ mt.pc = "pop"
  /\ LET q == m_stream_data[mt.oldest_stream].m_packet_queue
     IN IF q # <<>>
        THEN /\ mt' = [mt EXCEPT !.pc = "write", !.packet = QueueFront(q)]
             /\ m_stream_data' = [m_stream_data EXCEPT
                   ![mt.oldest_stream].m_packet_queue = QueueAfterPop(q)]
        ELSE /\ mt' = MtLoopStart
             /\ UNCHANGED m_stream_data
  /\ UNCHANGED <<muxer, m_encoders, m_shared_data, container, encoders, owner>>
  /\ UNCHANGED ringvars

\* "prepare packet": set the stream index and rescale the known timestamps
\* from the codec time base to the stream time base
PreparePacket(packet, stream_index, st) ==
  [packet EXCEPT
     !.stream_index = stream_index,
     !.pts = IF @ # AV_NOPTS_VALUE
             THEN av_rescale_q(@, st.codec_time_base, st.time_base) ELSE @,
     !.dts = IF @ # AV_NOPTS_VALUE
             THEN av_rescale_q(@, st.codec_time_base, st.time_base) ELSE @]

\* the stream's running pts (in seconds) after the container accepted a
\* packet: the packet's dts, or the previous running pts when it has none,
\* advanced by one frame duration (one tick of the codec time base)
RunningPtsAfter(st, packet) ==
  (IF packet.dts # AV_NOPTS_VALUE THEN Seconds(packet.dts, st.time_base) ELSE st.pts)
    + Seconds(1, st.codec_time_base)

\* a worker that carries on whatever av_interleaved_write_frame returned
AfterWriteIgnoringResult(write_ok) == "stats"

\* what MuxerThread does once av_interleaved_write_frame returned
AfterWrite(write_ok) == IF write_ok THEN "stats" ELSE "error"

\* a worker that gives up the packet's data before the write, so that the
\* flag is clear whatever av_interleaved_write_frame returns
MuxerThreadWriteDisowningFirst(write_ok, bytes) ==
  /\ mt.pc = "write"
  /\ LET s == mt.oldest_stream
         st == container.streams[s]
         packet == PreparePacket(mt.packet, s, st)
     IN /\ container' = [container EXCEPT
              !.log = Append(@, [op |-> "packet", ok |-> write_ok, stream |-> s,
                                 id |-> packet.id, pts |-> packet.pts,
                                 dts |-> packet.dts, oldest_pts |-> mt.oldest_pts]),
              !.streams[s].pts = IF write_ok THEN RunningPtsAfter(st, packet) ELSE @,
              !.pos = IF write_ok THEN @ + bytes ELSE @]
        /\ mt' = [mt EXCEPT !.pc = AfterWrite(write_ok),
                            !.packet = [packet EXCEPT !.free_on_destruct = FALSE]]
        /\ muxer' = IF AfterWrite(write_ok) = "error"
                    THEN [muxer EXCEPT !.m_error_occurred = TRUE]
                    ELSE muxer
  /\ UNCHANGED <<m_encoders, m_stream_data, m_shared_data, encoders, owner>>
  /\ UNCHANGED ringvars

\* MuxerThread, "prepare packet" and "write the packet": on success the data
\* is owned by the container (SetFreeOnDestruct(false)); on failure
\* LibavException is thrown and caught at the end of MuxerThread, which sets
\* m_error_occurred and returns
MuxerThreadWrite(write_ok, bytes) ==
  /\ mt.pc = "write"
  /\ LET s == mt.oldest_stream
         st == container.streams[s]
         packet == PreparePacket(mt.packet, s, st)
     IN /\ container' = [container EXCEPT
              !.log = Append(@, [op |-> "packet", ok |-> write_ok, stream |-> s,
                                 id |-> packet.id, pts |-> packet.pts,
                                 dts |-> packet.dts, oldest_pts |-> mt.oldest_pts]),
              !.streams[s].pts = IF write_ok THEN RunningPtsAfter(st, packet) ELSE @,
              !.pos = IF write_ok THEN @ + bytes ELSE @]
        /\ mt' = [mt EXCEPT !.pc = AfterWrite(write_ok),
                            !.packet = IF write_ok
                                       THEN [packet EXCEPT !.free_on_destruct = FALSE]
                                       ELSE packet]
        /\ muxer' = IF AfterWrite(write_ok) = "error"
                    THEN [muxer EXCEPT !.m_error_occurred = TRUE]
                    ELSE muxer
  /\ UNCHANGED <<m_encoders, m_stream_data, m_shared_data, encoders, owner>>
  /\ UNCHANGED ringvars

\* "timedelta > 0.999999" for a difference counted in 1/SecondUnits seconds
\* (SecondUnits is below 10^6, so the test is "at least one second")
MoreThanASecond(timedelta) == timedelta >= SecondUnits

\* variant: the byte counter set to the bytes written since it was last set
MuxerThreadStatsSinceLast ==
  /\ mt.pc = "stats"
  /\ LET total == container.pos - m_shared_data.m_total_bytes
         seeded == m_shared_data.m_stats_previous_pts # NOPTS_DOUBLE
         prev_pts == IF seeded THEN m_shared_data.m_stats_previous_pts ELSE mt.oldest_pts
         prev_bytes == IF seeded THEN m_shared_data.m_stats_previous_bytes ELSE total
         timedelta == mt.oldest_pts - prev_pts
     IN m_shared_data' =
          IF MoreThanASecond(timedelta)
          THEN [m_total_bytes |-> total,
                m_stats_actual_bit_rate |-> <<(total - prev_bytes) * 8, timedelta>>,
                m_stats_previous_pts |-> mt.oldest_pts,
                m_stats_previous_bytes |-> total]
          ELSE [m_total_bytes |-> total,
                m_stats_actual_bit_rate |-> m_shared_data.m_stats_actual_bit_rate,
                m_stats_previous_pts |-> prev_pts,
                m_stats_previous_bytes |-> prev_bytes]
  /\ mt' = MtLoopStart
  /\ UNCHANGED <<muxer, m_encoders, m_stream_data, container, encoders, owner>>
  /\ UNCHANGED ringvars

\* MuxerThread, "update the byte counter": under the shared lock
MuxerThreadStats ==
  /\ mt.pc = "stats"
  /\ LET total == container.pos
         seeded == m_shared_data.m_stats_previous_pts # NOPTS_DOUBLE
         prev_pts == IF seeded THEN m_shared_data.m_stats_previous_pts ELSE mt.oldest_pts
         prev_bytes == IF seeded THEN m_shared_data.m_stats_previous_bytes ELSE total
         timedelta == mt.oldest_pts - prev_pts
     IN m_shared_data' =
          IF MoreThanASecond(timedelta)
          THEN [m_total_bytes |-> total,
                m_stats_actual_bit_rate |-> <<(total - prev_bytes) * 8, timedelta>>,
                m_stats_previous_pts |-> mt.oldest_pts,
                m_stats_previous_bytes |-> total]
          ELSE [m_total_bytes |-> total,
                m_stats_actual_bit_rate |-> m_shared_data.m_stats_actual_bit_rate,
                m_stats_previous_pts |-> prev_pts,
                m_stats_previous_bytes |-> prev_bytes]
  /\ mt' = MtLoopStart
  /\ UNCHANGED <<muxer, m_encoders, m_stream_data, container, encoders, owner>>
  /\ UNCHANGED ringvars

\* -------------------------------------------------------------- specifications
\* bytes the output position may advance by on one packet write
WriteSizes == {0, 1}

NextMux ==
  \/ \E profile \in StreamProfiles : CreateStream(profile)
  \/ \E i \in StreamIds : RegisterEncoder(i)
  \/ \E ok \in BOOLEAN : Start(ok)
  \/ Finish
  \/ DestructorStop
  \/ DestructorJoin
  \/ \E ok \in BOOLEAN : FreeTrailer(ok)
  \/ FreeEncoders
  \/ FreeClose
  \/ \E i \in StreamIds : AddPacket(i)
  \/ \E i \in StreamIds : EndStream(i)
  \/ MuxerThreadScan
  \/ MuxerThreadSelected
  \/ MuxerThreadPop
  \/ \E ok \in BOOLEAN, b \in WriteSizes : MuxerThreadWrite(ok, b)
  \/ MuxerThreadStats

\* the capture channel untouched: constructed, no frame grabbed
InitMux == InitChannel({1}, {0}, {{}}) /\ InitMuxer

SpecMux == InitMux /\ [][NextMux]_vars

\* the two-stream interleave scenario: both streams in milliseconds, stream 0
\* emitting pts 0, 40, 80, ... and stream 1 emitting pts 10, 50, 90, ...
ScenarioProfile(stream_index) ==
  [codec_time_base |-> <<1, 1000>>, time_base |-> <<1, 1000>>,
   plan |-> TimedPlan(10 * stream_index, 40, ScenarioPackets)]

\* an encoder that has emitted all its packets
EncoderComplete(i) == encoders[i].produced = encoders[i].plan.count

NextInterleave ==
  \/ CreateStream(ScenarioProfile(container.nb_streams))
  \/ \E i \in StreamIds : RegisterEncoder(i)
  \/ (container.nb_streams = MUXER_MAX_STREAMS /\ Start(TRUE))
  \/ \E i \in StreamIds : AddPacket(i)
  \/ \E i \in StreamIds : (EncoderComplete(i) /\ EndStream(i))
  \/ MuxerThreadScan
  \/ MuxerThreadSelected
  \/ MuxerThreadPop
  \/ \E b \in WriteSizes : MuxerThreadWrite(TRUE, b)
  \/ MuxerThreadStats

SpecInterleave == InitMux /\ [][NextInterleave]_vars

\* bytes the container reports per packet in the drain specification
DrainWriteSize == 1

\* the muxer with a container whose writes succeed, under the scheduling the
\* threads get: the worker keeps running, and every encoder ends its stream
NextDrain ==
  \/ \E profile \in StreamProfiles : CreateStream(profile)
  \/ \E i \in StreamIds : RegisterEncoder(i)
  \/ \E ok \in BOOLEAN : Start(ok)
  \/ Finish
  \/ DestructorStop
  \/ DestructorJoin
  \/ FreeTrailer(TRUE)
  \/ FreeEncoders
  \/ FreeClose
  \/ \E i \in StreamIds : AddPacket(i)
  \/ \E i \in StreamIds : EndStream(i)
  \/ MuxerThreadScan
  \/ MuxerThreadSelected
  \/ MuxerThreadPop
  \/ MuxerThreadWrite(TRUE, DrainWriteSize)
  \/ MuxerThreadStats

MuxerThreadStep ==
  \/ MuxerThreadScan
  \/ MuxerThreadSelected
  \/ MuxerThreadPop
  \/ MuxerThreadWrite(TRUE, DrainWriteSize)
  \/ MuxerThreadStats

SpecDrain ==
  /\ InitMux
  /\ [][NextDrain]_vars
  /\ WF_vars(MuxerThreadStep)
  /\ \A i \in StreamIds : WF_vars(muxer.m_started /\ EndStream(i))

NextRing ==
  \/ \E g \in WindowSizes : GrabFrameBegin(g[1], g[2])
  \/ GrabFrameCheckRing
  \/ GrabFrameWriteInfo
  \/ GrabFrameReadPixels
  \/ \E d \in BOOLEAN : GrabFrameDrawCursor(d)
  \/ GrabFramePublish
  \/ ConsumerPoll
  \/ ConsumerReadInfo
  \/ ConsumerReadImage
  \/ ConsumerAdvance
  \/ Tick

InitRing == InitChannel(1 .. MaxRing, TargetFpsValues, FlagSets) /\ InitMuxer

SpecRing == InitRing /\ [][NextRing]_vars

\* the producer under pacing, the recorder not reading: a ring of one slot
\* (which fills) and a ring that holds every frame of the behaviour;
\* target_fps 0 (no pacing) and 3 (delay 333333 us); LIMIT_FPS set and clear
PacedFpsValues == {0, 3}
PacedFlagSets == {{}, {"LIMIT_FPS"}}
PacedRingSizes == {1, MaxPacedGrabs}

NextPacing ==
  \/ \E g \in WindowSizes : GrabFrameBegin(g[1], g[2])
  \/ GrabFrameCheckRing
  \/ GrabFrameWake
  \/ GrabFrameWriteInfo
  \/ GrabFrameReadPixels
  \/ GrabFramePublish
  \/ \E dt \in StartDelays \cup CallGaps : CallerWaits(dt)
  \/ \E late \in UsleepLateness : UsleepReturns(late)

InitPacing == InitChannel(PacedRingSizes, PacedFpsValues, PacedFlagSets) /\ InitMuxer

SpecPacing == InitPacing /\ [][NextPacing]_vars

\* the producer and the reader on a ring of one slot, with window geometries
\* at the limits of the size checks: below 2 in one axis; a row of 16 bytes
\* times 4 and 5 rows and a row of 32 bytes times 3 rows around max_bytes = 64;
\* 10000 and 10001 in an axis; a width whose row length does not fit 32 bits
BoundarySizes ==
  {<<1, 2>>, <<2, 1>>, <<4, 4>>, <<4, 5>>, <<5, 3>>, <<10000, 10000>>,
   <<10001, 2>>, <<1073741824, 2>>}
\* max_bytes: a small segment and the largest the constructor accepts
BoundaryMaxBytes == {64, 1073741824}

NextSize ==
  \/ \E g \in BoundarySizes : GrabFrameBegin(g[1], g[2])
  \/ GrabFrameCheckRing
  \/ GrabFrameWriteInfo
  \/ GrabFrameReadPixels
  \/ GrabFramePublish
  \/ ConsumerPoll
  \/ ConsumerReadInfo
  \/ ConsumerReadImage
  \/ ConsumerAdvance

InitSize == InitChannelWith({1}, BoundaryMaxBytes, {0}, {{}}) /\ InitMuxer

SpecSize == InitSize /\ [][NextSize]_vars

\* The hotkey configuration: GetHotkeyInfo calls of the producer while the
\* recorder stores hotkey configuration fields.
NextHotkey ==
  \/ GetHotkeyInfoBegin
  \/ \E f \in HotkeyFields : GetHotkeyInfoLoad(f)
  \/ GetHotkeyInfoReturn
  \/ \E f \in HotkeyFields : \E v \in HotkeyValues(f) : RecorderWritesHotkey(f, v)

InitHotkey == InitChannel({1}, {0}, {{}}) /\ InitMuxer

SpecHotkey == InitHotkey /\ [][NextHotkey]_vars

\* The hotkey counter: TriggerHotkey calls of the producer interleaved with
\* GrabFrame calls and with the recorder storing hotkey configuration fields.
HotkeyCounterStarts == {0, 41}
HotkeyWindowSizes == {<<1, 2>>, <<2, 2>>}

NextTrigger ==
  \/ TriggerHotkeyLoad
  \/ TriggerHotkeyStore
  \/ \E f \in HotkeyFields : \E v \in HotkeyValues(f) : RecorderWritesHotkey(f, v)
  \/ \E s \in HotkeyWindowSizes :
       header.frame_counter < MaxHotkeyGrabs /\ GrabFrameBegin(s[1], s[2])
  \/ GrabFrameCheckRing
  \/ GrabFrameWriteInfo
  \/ GrabFrameReadPixels
  \/ GrabFramePublish

InitTrigger ==
  InitChannelFrom({1}, MaxBytesValues, {0}, {{}}, HotkeyCounterStarts) /\ InitMuxer

SpecTrigger == InitTrigger /\ [][NextTrigger]_vars

\* Construction of the grabber in every environment, then GrabFrame calls.
AttachRingSizes == {0, 1, 2, MaxRingBufferSize, MaxRingBufferSize + 1}
AttachMaxBytes == {64, MaxMaxBytes, MaxMaxBytes + 1}
AttachMainSizes(n) == {SizeofHeader - 1, MainSizeFor(n), MainSizeFor(n + 1)}
AttachBadFrames(n) == {NoBadFrame, 0, n - 1}

\* State when the constructor is entered: the segments as the recorder made
\* them, or as a wrong environment presents them; nothing cached yet.
InitAttach ==
  /\ \E n \in AttachRingSizes, mb \in AttachMaxBytes :
       /\ header = [ring_buffer_size |-> n, max_bytes |-> mb, target_fps |-> 0,
                    flags |-> {}, current_width |-> 0, current_height |-> 0,
                    frame_counter |-> 0, read_pos |-> 0, write_pos |-> 0,
                    hotkey_enabled |-> 0, hotkey_keycode |-> 0,
                    hotkey_modifiers |-> 0, hotkey_counter |-> 0]
       /\ \E present \in BOOLEAN, ok \in BOOLEAN, size \in AttachMainSizes(n),
             bad \in AttachBadFrames(n), kind \in {"attach", "size"} :
            /\ (bad = NoBadFrame) => kind = "attach"
            /\ attach = [pc |-> "env", i |-> 0, exit_status |-> 0,
                         shm_id_present |-> present, main_attach_ok |-> ok,
                         main_size |-> size, bad_frame |-> bad,
                         bad_kind |-> IF bad = NoBadFrame THEN "none" ELSE kind]
  /\ grabber = [m_width |-> 0, m_height |-> 0, m_next_frame_time |-> 0,
                m_warn_too_small |-> TRUE, m_warn_too_large |-> TRUE,
                m_ring_buffer_size |-> 0, m_max_bytes |-> 0,
                m_target_fps |-> 0, m_flags |-> {}, m_has_xfixes |-> TRUE]
  /\ frameinfo = [s \in 0 .. (header.ring_buffer_size - 1) |-> NoInfo]
  /\ frames = [s \in 0 .. (header.ring_buffer_size - 1) |-> NoImage]
  /\ gf = [pc |-> "idle", read_pos |-> 0, write_pos |-> 0, timestamp |-> 0,
           image_stride |-> 0, frame |-> 0]
  /\ consumer = [pc |-> "idle", slot |-> 0, info |-> NoInfo, image |-> NoImage,
                 advanced |-> FALSE]
  /\ now = 0
  /\ hotkey = HotkeyIdle(0)
  /\ caller = CallerIdle
  /\ InitMuxer

NextAttach ==
  \/ ConstructorReadEnv
  \/ ConstructorAttachMain
  \/ ConstructorReadHeader
  \/ ConstructorAttachFrame
  \/ ConstructorReturn
  \/ \E s \in WindowSizes : GrabFrameBegin(s[1], s[2])
  \/ GrabFrameCheckRing
  \/ GrabFrameWriteInfo
  \/ GrabFrameReadPixels
  \/ GrabFramePublish

\* the constructor is straight-line code: once entered it runs to its return
\* or to its exit
ConstructorStep ==
  \/ ConstructorReadEnv
  \/ ConstructorAttachMain
  \/ ConstructorReadHeader
  \/ ConstructorAttachFrame
  \/ ConstructorReturn

SpecAttach == InitAttach /\ [][NextAttach]_vars /\ WF_vars(ConstructorStep)

\* ===================================================== capture channel claims

\* slots holding published, unread frames according to the header cursors
UnreadSlots ==
  {(header.read_pos + k) % N :
     k \in 0 .. (FramesReady(header.read_pos, header.write_pos) - 1)}

\* the producer is between claiming slot s and publishing it
ProducerWriting(s) ==
  gf.pc \in {"info", "pixels", "cursor", "publish"} /\ gf.write_pos % N = s

\* C1: in every reachable state of the channel, with the consumer advancing
\* read_pos by one only when a frame is unread, both cursors lie in
\* [0, 2*ring_buffer_size) and the occupancy
\* (write_pos - read_pos) mod (2*ring_buffer_size) lies in [0, ring_buffer_size].
C1_OccupancyBounded ==
  /\ header.read_pos \in 0 .. (2 * header.ring_buffer_size - 1)
  /\ header.write_pos \in 0 .. (2 * header.ring_buffer_size - 1)
  /\ LET d == header.write_pos - header.read_pos
         occ == IF d >= 0 THEN d ELSE d + 2 * header.ring_buffer_size
     IN occ \in 0 .. header.ring_buffer_size

\* C1 witness: a ring of two slots that is full after write_pos wrapped to 0
C1_Witness ==
  /\ header.ring_buffer_size = 2
  /\ header.read_pos = 2
  /\ header.write_pos = 0

\* C2: every slot the header cursors publish is completely written: its
\* descriptor and its payload come from the same grab and the producer is not
\* working on it (descriptor, pixels and cursor compositing are done before
\* write_pos advances); hence what the consumer reads at any interleaving
\* point is one complete frame.
C2_PublishedSlotsComplete ==
  /\ \A s \in UnreadSlots :
       /\ ~ProducerWriting(s)
       /\ frameinfo[s].frame > 0
       /\ frames[s].frame = frameinfo[s].frame
  /\ consumer.pc \in {"info", "image", "advance"} => ~ProducerWriting(consumer.slot)
  /\ consumer.pc = "advance" =>
       /\ consumer.info.frame > 0
       /\ consumer.image.frame = consumer.info.frame
       /\ consumer.info = frameinfo[consumer.slot]
       /\ consumer.image = frames[consumer.slot]

\* C2 witness: the consumer has read a complete frame (cursor composited)
\* while the producer is in the middle of writing the pixels of another slot
C2_Witness ==
  /\ consumer.pc = "advance"
  /\ consumer.image.frame > 0
  /\ consumer.image.cursor
  /\ gf.pc \in {"pixels", "cursor"}
  /\ gf.write_pos % N # consumer.slot

\* C3: a GrabFrame that finds the occupancy >= ring_buffer_size returns in
\* that very step (no waiting) and leaves write_pos, all descriptors and all
\* payloads unchanged; and as long as the consumer has never advanced
\* read_pos, write_pos never exceeds N, exactly the slots below write_pos hold
\* frames, in increasing grab order, and the slots above are untouched.
C3_DropWhenFull ==
  /\ [][(/\ gf.pc = "ring"
          /\ gf' # gf
          /\ LET d == header.write_pos - header.read_pos
                 occ == IF d >= 0 THEN d ELSE d + 2 * header.ring_buffer_size
             IN occ >= header.ring_buffer_size)
         => (/\ gf'.pc = "idle"
             /\ header'.write_pos = header.write_pos
             /\ frameinfo' = frameinfo
             /\ frames' = frames)]_vars
  /\ [](~consumer.advanced =>
         /\ header.read_pos = 0
         /\ header.write_pos <= header.ring_buffer_size
         /\ \A s \in 0 .. (header.ring_buffer_size - 1) :
              /\ s < header.write_pos =>
                    /\ frameinfo[s].frame > 0
                    /\ frames[s].frame = frameinfo[s].frame
                    /\ \A t \in 0 .. (s - 1) : frameinfo[t].frame < frameinfo[s].frame
              /\ s > header.write_pos => frameinfo[s] = NoInfo /\ frames[s] = NoImage
              /\ (s = header.write_pos /\ gf.pc \notin {"pixels", "cursor", "publish"})
                    => frames[s] = NoImage)

\* C3 witness: two-slot ring, consumer never advanced, both slots published
\* and a later grab of a valid-size frame was dropped on the full ring
C3_Witness ==
  /\ header.ring_buffer_size = 2
  /\ ~consumer.advanced
  /\ header.write_pos = 2
  /\ header.frame_counter > frameinfo[1].frame
  /\ gf.pc = "idle"
  /\ gf.write_pos = 2 /\ gf.read_pos = 0
  /\ ~TooSmall(grabber.m_width, grabber.m_height)
  /\ ~TooLarge(grabber.m_width, grabber.m_height, grabber.m_max_bytes)

\* ================================================================ muxer claims

\* the packet writes the container received, in order
PacketEntries == SelectSeq(container.log, LAMBDA e : e.op = "packet")
\* those of one stream
StreamEntries(i) ==
  SelectSeq(container.log, LAMBDA e : e.op = "packet" /\ e.stream = i)
\* positions in the log of the calls of one kind
LogPositions(op) == {j \in 1 .. Len(container.log) : container.log[j].op = op}
RegisteredStreams == 0 .. (container.nb_streams - 1)

\* C4: for every stream, the packets handed to the container are, in order,
\* the first packets AddPacket enqueued for it (ids 1, 2, ...), and they are
\* followed without gap or repetition by the packet the worker holds and the
\* packets still queued: nothing is reordered, duplicated or lost.
C4_StreamOrderIsEnqueueOrder ==
  \A i \in RegisteredStreams :
    LET written == StreamEntries(i)
        held == IF mt.pc = "write" /\ mt.oldest_stream = i THEN <<mt.packet>> ELSE <<>>
        pending == held \o m_stream_data[i].m_packet_queue
    IN /\ \A j \in 1 .. Len(written) : written[j].id = j
       /\ \A j \in 1 .. Len(pending) : pending[j].id = Len(written) + j
       /\ Len(written) + Len(pending) = encoders[i].produced

\* C4 witness: two packets of stream 0 and a packet of stream 1 were written
C4_Witness ==
  /\ Len(StreamEntries(0)) = 2
  /\ Len(StreamEntries(1)) >= 1
  /\ \A j \in 1 .. Len(PacketEntries) : PacketEntries[j].ok

\* C5: over the packets written to the container, in order, the pts the
\* worker selected the stream by (oldest_pts, the container-reported running
\* pts of the selected stream) never decreases.
C5_SelectedPtsNonDecreasing ==
  \A j \in 1 .. Len(PacketEntries) : \A k \in 1 .. Len(PacketEntries) :
    j < k => PacketEntries[j].oldest_pts <= PacketEntries[k].oldest_pts

\* C5 witness: packets of both streams were written, the selected pts rising
C5_Witness ==
  \E j \in 1 .. Len(PacketEntries) : \E k \in 1 .. Len(PacketEntries) :
    /\ j < k
    /\ PacketEntries[j].stream # PacketEntries[k].stream
    /\ 0 < PacketEntries[j].oldest_pts
    /\ PacketEntries[j].oldest_pts < PacketEntries[k].oldest_pts

\* C6: in the two-stream scenario (stream 0 at 0, 40, 80, ... ms, stream 1 at
\* 10, 50, 90, ... ms, time base 1/1000) the container receives the packets
\* alternating 0@0, 1@10, 0@40, 1@50, ...: the k-th packet written is of
\* stream (k-1) mod 2 with pts 40*((k-1) div 2) + 10*((k-1) mod 2), whatever
\* the interleaving of the enqueues with the worker.
C6_ScenarioOrder ==
  \A k \in 1 .. Len(PacketEntries) :
    /\ PacketEntries[k].stream = (k - 1) % 2
    /\ PacketEntries[k].pts = 40 * ((k - 1) \div 2) + 10 * ((k - 1) % 2)

\* C6 witness: all packets of both streams were written
C6_Witness ==
  /\ Len(PacketEntries) = 2 * ScenarioPackets
  /\ PacketEntries[Len(PacketEntries)].stream = 1
  /\ PacketEntries[Len(PacketEntries)].pts = 40 * (ScenarioPackets - 1) + 10

\* the worker has drained everything
Drained ==
  /\ \A i \in RegisteredStreams :
       /\ m_stream_data[i].m_is_done
       /\ m_stream_data[i].m_packet_queue = <<>>
       /\ Len(StreamEntries(i)) = encoders[i].produced
  /\ muxer.m_is_done
  /\ ~muxer.m_error_occurred

\* C7: with every stream eventually ended by its encoder, no packet added
\* after EndStream and no failing write, a started worker eventually returns;
\* and when it has returned every stream is done, every queue is empty, every
\* enqueued packet was written, m_is_done is set and m_error_occurred is not.
C7_WorkerDrainsAndReturns ==
  /\ (mt.pc = "scan") ~> (mt.pc = "done")
  /\ [](mt.pc = "done" => Drained)

\* C7 witness: the worker returned after writing packets of two streams
C7_Witness ==
  /\ mt.pc = "done"
  /\ container.nb_streams = 2
  /\ \A i \in RegisteredStreams : encoders[i].produced >= 1
  /\ Drained

\* C8: a failed packet write is the last packet the container receives; the
\* worker has then returned with m_error_occurred set and m_is_done clear,
\* the failing step and everything after it leave the byte counter and the
\* bit-rate window alone, and a destruction that has run to its end has
\* stopped every encoder, joined the worker and attempted the trailer.
C8_WriteFailureEndsWorker ==
  /\ [](\A j \in LogPositions("packet") :
          ~container.log[j].ok =>
            /\ \A k \in LogPositions("packet") : k <= j
            /\ mt.pc = "error"
            /\ muxer.m_error_occurred
            /\ ~muxer.m_is_done
            /\ (owner.pc = "freed" =>
                  /\ \A i \in RegisteredStreams : encoders[i].stop_requested
                  /\ muxer.m_thread = "joined"
                  /\ \E t \in LogPositions("trailer") : t > j))
  /\ [][(mt.pc = "error" \/ mt'.pc = "error") =>
          (m_shared_data' = m_shared_data /\ mt'.pc = "error")]_vars

\* C8 witness: a muxer destroyed after its second packet write failed
C8_Witness ==
  /\ owner.pc = "freed"
  /\ mt.pc = "error"
  /\ Len(PacketEntries) = 2
  /\ PacketEntries[1].ok
  /\ ~PacketEntries[2].ok

\* C9: once the header write has failed the muxer is never started, no worker
\* exists, no encoder is asked to stop, the container receives neither packet
\* nor trailer; and the destruction still destroys the registered encoders
\* and closes the container.
C9_HeaderFailureLeavesUnstarted ==
  (\E j \in LogPositions("header") : ~container.log[j].ok) =>
    /\ ~muxer.m_started
    /\ mt.pc = "none"
    /\ muxer.m_thread = "none"
    /\ \A i \in RegisteredStreams : ~encoders[i].stop_requested
    /\ LogPositions("packet") = {}
    /\ LogPositions("trailer") = {}
    /\ owner.pc \in {"failed", "free", "free_encoders", "free_close", "freed"}
    /\ (owner.pc = "freed" =>
          /\ \A i \in RegisteredStreams :
               encoders[i].state = "deleted" /\ m_encoders[i] = "NULL"
          /\ container.pb = "NULL"
          /\ muxer.m_format_context = "NULL"
          /\ container.log[Len(container.log)].op = "close")

\* C9 witness: a two-stream muxer destroyed after its header write failed
C9_Witness ==
  /\ owner.pc = "freed"
  /\ container.nb_streams = 2
  /\ container.log = <<[op |-> "header", ok |-> FALSE], [op |-> "close", ok |-> TRUE]>>

\* C10: a muxer whose Start succeeded gives the container the header exactly
\* once, as its first call and before every packet; the trailer at most once
\* and after every packet; and once destroyed exactly once: the calls are
\* header, the packets, trailer, close.  Without packets: header, trailer.
C10_HeaderFirstTrailerLast ==
  (\E j \in LogPositions("header") : container.log[j].ok) =>
    /\ LogPositions("header") = {1}
    /\ Cardinality(LogPositions("trailer")) <= 1
    /\ \A t \in LogPositions("trailer") : \A k \in LogPositions("packet") : k < t
    /\ (owner.pc = "freed" =>
          /\ Cardinality(LogPositions("trailer")) = 1
          /\ LogPositions("trailer") = {Len(container.log) - 1}
          /\ LogPositions("close") = {Len(container.log)}
          /\ LogPositions("packet") = 2 .. (Len(container.log) - 2))

\* C10 witness: registered, started, finished and destroyed without a packet
C10_Witness ==
  /\ owner.pc = "freed"
  /\ container.nb_streams = 2
  /\ \A i \in RegisteredStreams : encoders[i].finish_requested
  /\ Len(container.log) = 3
  /\ container.log[1] = [op |-> "header", ok |-> TRUE]
  /\ container.log[2].op = "trailer"
  /\ container.log[3].op = "close"

\* ============================================== producer-side header claims

\* a step of GrabFrame: its position, the grabber's members, the header
\* fields it publishes, a descriptor or a payload change
GrabFrameActs ==
  \/ gf' # gf
  \/ grabber' # grabber
  \/ header'.frame_counter # header.frame_counter
  \/ header'.current_width # header.current_width
  \/ header'.current_height # header.current_height
  \/ header'.write_pos # header.write_pos
  \/ frameinfo' # frameinfo
  \/ frames' # frames

\* C11: no step of GrabFrame, on any of its paths (size rejection, full ring,
\* pacing drop, sleep, publish), changes read_pos, ring_buffer_size,
\* max_bytes, target_fps, flags, the hotkey configuration or hotkey_counter:
\* of the header it writes current_width, current_height, frame_counter and
\* write_pos only.
C11_GrabFrameWritesOnlyItsFields ==
  [][GrabFrameActs =>
       /\ header'.read_pos = header.read_pos
       /\ header'.ring_buffer_size = header.ring_buffer_size
       /\ header'.max_bytes = header.max_bytes
       /\ header'.target_fps = header.target_fps
       /\ header'.flags = header.flags
       /\ header'.hotkey_enabled = header.hotkey_enabled
       /\ header'.hotkey_keycode = header.hotkey_keycode
       /\ header'.hotkey_modifiers = header.hotkey_modifiers
       /\ header'.hotkey_counter = header.hotkey_counter]_vars

\* C11 witness: on a ring of one slot GrabFrame has rejected a too small and
\* a too large frame, published a frame, and returned early from a later
\* grab of a fitting frame (full ring); the header's other fields are as the
\* recorder published them
C11_Witness ==
  /\ header.ring_buffer_size = 1
  /\ ~grabber.m_warn_too_small
  /\ ~grabber.m_warn_too_large
  /\ header.write_pos = 1
  /\ gf.pc = "idle"
  /\ gf.write_pos = 1
  /\ header.frame_counter >= 4
  /\ ~TooSmall(grabber.m_width, grabber.m_height)
  /\ ~TooLarge(grabber.m_width, grabber.m_height, grabber.m_max_bytes)
  /\ header.read_pos = 0
  /\ header.max_bytes = grabber.m_max_bytes
  /\ header.target_fps = grabber.m_target_fps
  /\ header.flags = grabber.m_flags

\* C12: every GrabFrame call, at its entry and whatever becomes of the frame
\* (published, rejected for its size, dropped on a full ring, dropped or
\* delayed by pacing), adds exactly one to frame_counter and stores the
\* window's current width and height in the header; no later step of the call
\* touches the three fields, so frame_counter counts the calls.
C12_EveryGrabCounted ==
  /\ [][(gf.pc = "idle" /\ GrabFrameActs) =>
          /\ header'.frame_counter = header.frame_counter + 1
          /\ header'.current_width = grabber'.m_width
          /\ header'.current_height = grabber'.m_height]_vars
  /\ [][gf.pc # "idle" =>
          /\ header'.frame_counter = header.frame_counter
          /\ header'.current_width = header.current_width
          /\ header'.current_height = header.current_height]_vars
  /\ [][header'.frame_counter # header.frame_counter =>
          (gf.pc = "idle" /\ header'.frame_counter = header.frame_counter + 1)]_vars
  /\ [](/\ header.current_width = grabber.m_width
        /\ header.current_height = grabber.m_height
        /\ \A s \in Slots : frameinfo[s].frame <= header.frame_counter)

\* C12 witness: four calls counted: one frame published, one rejected as too
\* small, one as too large, and the last, of a fitting size, dropped by pacing
C12_Witness ==
  /\ header.frame_counter = 4
  /\ header.write_pos = 1
  /\ frameinfo[0].frame < 4
  /\ ~grabber.m_warn_too_small
  /\ ~grabber.m_warn_too_large
  /\ grabber.m_target_fps > 0
  /\ gf.pc = "idle"
  /\ gf.frame = 4
  /\ ~RingFull(header.read_pos, header.write_pos)
  /\ gf.timestamp < grabber.m_next_frame_time
  /\ header.current_width = 2 /\ header.current_height = 2

\* the row length GrabFrame uses for a frame of width w
StrideOf(w) == grow_align16(w * 4)

\* a descriptor the size checks let through
DescriptorFits(info, max_bytes) ==
  /\ info.width >= 2 /\ info.height >= 2
  /\ info.width * 4 <= StrideOf(info.width)
  /\ StrideOf(info.width) % 16 = 0
  /\ StrideOf(info.width) <= max_bytes \div Max(1, info.height)
  /\ StrideOf(info.width) * info.height <= max_bytes

\* C13: a GrabFrame call for a window below 2 in an axis, beyond 10000 in an
\* axis, or with align16(width*4)*height > max_bytes returns at once and
\* leaves write_pos, the descriptors and the payloads unchanged; hence every
\* published slot, and every descriptor the reader has read, satisfies
\* width*4 <= stride <= max_bytes / max(1, height), stride divisible by 16,
\* for stride = align16(width*4).
C13_OnlyFittingFramesPublished ==
  /\ [][(/\ gf.pc = "idle"
          /\ GrabFrameActs
          /\ LET w == grabber'.m_width
                 h == grabber'.m_height
             IN \/ w < 2 \/ h < 2
                \/ w > 10000 \/ h > 10000
                \/ StrideOf(w) * h > header.max_bytes)
         => (/\ gf'.pc = "idle"
             /\ header'.write_pos = header.write_pos
             /\ frameinfo' = frameinfo
             /\ frames' = frames)]_vars
  /\ [](/\ \A s \in UnreadSlots : DescriptorFits(frameinfo[s], header.max_bytes)
        /\ consumer.pc \in {"image", "advance"} =>
             DescriptorFits(consumer.info, header.max_bytes))

\* C13 witness: the reader holds the descriptor of a 4x4 frame, which fills
\* a payload segment of 64 bytes exactly, after frames of 4x5 (too large by
\* 16 bytes) and of 1x2 (too small) were rejected
C13_Witness ==
  /\ header.max_bytes = 64
  /\ consumer.pc = "advance"
  /\ consumer.info.width = 4 /\ consumer.info.height = 4
  /\ consumer.info.frame = 3
  /\ ~grabber.m_warn_too_small
  /\ ~grabber.m_warn_too_large

\* ------------------------------------------------------------ pacing claims
\* a GrabFrame call that found room in the ring takes the pacing step
PacingStepTaken ==
  /\ gf.pc = "ring"
  /\ gf'.pc # "ring"
  /\ ~(FramesReady(header.read_pos, header.write_pos) >= N)

\* the call is early: pacing is on and the clock has not reached the cursor
EarlyCall == grabber.m_target_fps > 0 /\ now < grabber.m_next_frame_time

\* the pacing cursor is advanced to max(next_frame_time + delay, now)
CursorAdvanced ==
  grabber'.m_next_frame_time =
    Max(grabber.m_next_frame_time + (1000000 \div grabber.m_target_fps), now)

\* the parts of the pacing step that do not concern the cursor of a dropped
\* frame: target_fps = 0 never drops or delays; a call on time passes and
\* advances the cursor; with LIMIT_FPS an early call sleeps, resumes only once
\* the clock has reached the cursor, stamps the frame with the clock read after
\* the sleep, advances the cursor and publishes; without LIMIT_FPS an early
\* call returns with write_pos unchanged; a frame past the pacing step is
\* written and published.
PacingStepRules ==
  /\ [][PacingStepTaken /\ grabber.m_target_fps = 0
          => gf'.pc = "info" /\ grabber' = grabber /\ now' = now]_vars
  /\ [][PacingStepTaken /\ grabber.m_target_fps > 0 /\ ~EarlyCall
          => gf'.pc = "info" /\ gf'.timestamp = now /\ CursorAdvanced]_vars
  /\ [][PacingStepTaken /\ EarlyCall /\ "LIMIT_FPS" \in grabber.m_flags
          => gf'.pc = "sleep" /\ header' = header /\ grabber' = grabber]_vars
  /\ [][gf.pc = "sleep" /\ gf'.pc # "sleep"
          => /\ now >= grabber.m_next_frame_time
             /\ gf'.pc = "info"
             /\ gf'.timestamp = now
             /\ CursorAdvanced]_vars
  /\ [][PacingStepTaken /\ EarlyCall /\ "LIMIT_FPS" \notin grabber.m_flags
          => gf'.pc = "idle" /\ header'.write_pos = header.write_pos]_vars
  /\ [][gf.pc \in {"info", "pixels", "cursor"} /\ gf'.pc # gf.pc
          => gf'.pc \in {"pixels", "cursor", "publish"}]_vars
  /\ [][gf.pc = "publish" /\ gf'.pc # "publish"
          => header'.write_pos = (header.write_pos + 1) % (N * 2)]_vars

\* C14 as the specification words it: the pacing step, and "in both cases"
\* (LIMIT_FPS set or clear, the dropped frame included) the cursor is advanced
\* to max(next_frame_time + delay, now).
C14_CursorAdvancedInBothCases ==
  /\ PacingStepRules
  /\ [][PacingStepTaken /\ EarlyCall /\ "LIMIT_FPS" \notin grabber.m_flags
          => CursorAdvanced]_vars

\* C14 (amended): the pacing step of GrabFrame when target_fps > 0, with
\* delay = 1000000 / target_fps microseconds: with LIMIT_FPS an early call
\* sleeps until next_frame_time and then publishes; without it an early call
\* is dropped, write_pos unchanged. The cursor is advanced to
\* max(next_frame_time + delay, now) by every call that passes the step, with
\* LIMIT_FPS set or clear, and is left as it was by a dropped call. With
\* target_fps = 0 no frame is dropped or delayed by pacing.
C14_PacingStep ==
  /\ PacingStepRules
  /\ [][PacingStepTaken /\ EarlyCall /\ "LIMIT_FPS" \notin grabber.m_flags
          => grabber' = grabber]_vars

\* reached: without LIMIT_FPS, on a ring with room, the first call published
\* a frame and the second, early, was dropped: the cursor is still one delay
\* past the first frame, and the clock has not reached it.
C14_Witness ==
  /\ "LIMIT_FPS" \notin grabber.m_flags
  /\ grabber.m_target_fps > 0
  /\ N > 1
  /\ grabber.m_warn_too_small /\ grabber.m_warn_too_large
  /\ gf.pc = "idle"
  /\ header.frame_counter = 2
  /\ header.write_pos = 1
  /\ now < grabber.m_next_frame_time
  /\ grabber.m_next_frame_time =
       frameinfo[0].timestamp + (1000000 \div grabber.m_target_fps)

\* ---------------------------------------------------------- frame-rate cap
\* one second, in the microseconds of hrt_time_micro
OneSecond == 1000000

\* the slots published so far, on a ring that never filled and never wrapped
PublishedSlots == 0 .. (header.write_pos - 1)

\* write_pos advances in the second that starts at w: a frame is published at
\* the clock reading its descriptor carries
AdvancesIn(w) ==
  Cardinality({s \in PublishedSlots :
                 w <= frameinfo[s].timestamp /\ frameinfo[s].timestamp < w + OneSecond})

\* the seconds that matter: those starting at a published frame (where the
\* count is largest) and just after one (where it is smallest)
WindowStarts ==
  {frameinfo[s].timestamp : s \in PublishedSlots}
    \cup {frameinfo[s].timestamp + 1 : s \in PublishedSlots}

\* pacing is on, the ring has room for every grab and every grab had a usable
\* geometry; the callers of this specification leave at most one delay between
\* two calls, so GrabFrame is called at target_fps or faster
RateCapCase ==
  /\ grabber.m_target_fps > 0
  /\ N = MaxPacedGrabs
  /\ grabber.m_warn_too_small /\ grabber.m_warn_too_large

\* the calls went on to the end of the second that starts at w
SecondElapsed(w) == now >= w + OneSecond

\* the first call came a delay or more after construction set the cursor
FirstCallAfterIdle ==
  header.write_pos > 0
    /\ frameinfo[0].timestamp >= 1000000 \div grabber.m_target_fps

C16_SnapshotIsAtomic ==
  hotkey.ghi.pc = "idle" =>
    /\ hotkey.calls > 0 => hotkey.last \in hotkey.held
    /\ hotkey.calls > 1 /\ ~hotkey.wrote /\ ~hotkey.wrote_before
         => hotkey.last = hotkey.previous

\* C17: each TriggerHotkey call increases hotkey_counter by exactly one and
\* changes no other header field; at any time hotkey_counter minus its value
\* at start equals the number of TriggerHotkey calls made, also when the calls
\* are interleaved with GrabFrame calls and recorder writes to the hotkey
\* configuration; nothing else moves the counter.
C17_CounterCountsPresses ==
  /\ [](header.hotkey_counter - hotkey.counter0 = hotkey.presses)
  /\ [][hotkey'.presses # hotkey.presses
          => /\ hotkey'.presses = hotkey.presses + 1
             /\ header' = [header EXCEPT !.hotkey_counter = header.hotkey_counter + 1]]_vars
  /\ [][header'.hotkey_counter # header.hotkey_counter
          => hotkey'.presses = hotkey.presses + 1]_vars

\* reached: two presses reported on a counter that started at 41, in a
\* behaviour where a GrabFrame call published a frame and the recorder enabled
\* the hotkey.
C17_Witness ==
  /\ hotkey.counter0 = 41
  /\ hotkey.presses = 2
  /\ hotkey.th.pc = "idle"
  /\ header.hotkey_counter = 43
  /\ header.frame_counter > 0
  /\ header.write_pos = 1
  /\ header.hotkey_enabled = 1
  /\ hotkey.writes > 0

\* ------------------------------------------------------------- attach claim
\* every payload segment of the ring the header announces attaches and is
\* max_bytes long
PayloadsValid == attach.bad_frame \notin 0 .. (header.ring_buffer_size - 1)

\* the environment the claim asks for
EnvironmentValid ==
  /\ attach.shm_id_present
  /\ attach.main_attach_ok
  /\ header.ring_buffer_size >= 1 /\ header.ring_buffer_size <= 1000
  /\ header.max_bytes <= 1073741824
  /\ attach.main_size = SizeofHeader + header.ring_buffer_size * SizeofFrameInfo
  /\ PayloadsValid

\* C18: producer attach is all-or-fatal. Construction completes only if the
\* environment supplies the main segment id (and the segment attaches),
\* ring_buffer_size is in 1..1000, max_bytes <= 1 GiB, the main segment size
\* equals sizeof(Header) + ring_buffer_size * sizeof(FrameDescriptor) and every
\* payload segment attaches with size max_bytes, and it does complete then,
\* with every payload attached; any violation ends the process with the
\* sentinel exit status, after which nothing happens; and no frame is grabbed
\* unless construction completed.
C18_AttachAllOrFatal ==
  /\ [](attach.pc = "constructed"
          => EnvironmentValid /\ attach.i = header.ring_buffer_size)
  /\ [](attach.pc = "exited"
          => ~EnvironmentValid /\ attach.exit_status = EXIT_STATUS)
  /\ [](attach.pc # "constructed"
          => /\ header.frame_counter = 0
             /\ header.write_pos = 0
             /\ gf.pc = "idle"
             /\ \A s \in DOMAIN frames : frames[s] = NoImage /\ frameinfo[s] = NoInfo)
  /\ [][attach.pc # "exited"]_vars
  /\ (EnvironmentValid ~> attach.pc = "constructed")
  /\ (~EnvironmentValid ~> attach.pc = "exited")

\* reached: a frame published on a ring of 1000 slots with a byte cap of 1 GiB
\* after the constructor attached all of them.
C18_Witness ==
  /\ attach.pc = "constructed"
  /\ attach.i = 1000
  /\ header.max_bytes = 1073741824
  /\ header.write_pos = 1
  /\ gf.pc = "idle"

\* ---------------------------------------------------------- muxer statistics
\* Muxer::GetTotalBytes: the byte counter, read under the shared-data lock
GetTotalBytes == m_shared_data.m_total_bytes

\* C19: total_bytes, as GetTotalBytes returns it, never decreases from one
\* worker iteration to the next, whatever packets and streams are written; an
\* iteration that wrote a packet sets it to the container's output offset.
C19_TotalBytesNonDecreasing ==
  /\ [][GetTotalBytes' >= GetTotalBytes]_vars
  /\ [][mt.pc = "stats" /\ mt'.pc # "stats" => GetTotalBytes' = container.pos]_vars
  /\ [][GetTotalBytes' # GetTotalBytes => mt.pc = "stats"]_vars

\* reached: the worker has written packets of both streams, one that moved the
\* output offset and one that did not, and is back at the top of its loop.
C19_Witness ==
  /\ mt.pc = "scan"
  /\ GetTotalBytes = 2
  /\ \E i, j \in 1 .. Len(container.log) :
       /\ i < j
       /\ container.log[i].op = "packet" /\ container.log[j].op = "packet"
       /\ container.log[i].stream # container.log[j].stream

\* ------------------------------------------------------------ stream selection
\* stream j is not done or has queued packets
Eligible(j) ==
  ~m_stream_data[j].m_is_done \/ Len(m_stream_data[j].m_packet_queue) > 0

\* the pts the container reports for stream j: pts * time_base
ContainerPts(j) == container.streams[j].pts

\* the worker examines stream mt.i in this step
ScanStep == mt.pc = "scan" /\ mt.i < container.nb_streams /\ mt'.i = mt.i + 1

\* the worker looks into the queue of the stream it selected in this step
PopStep == mt.pc = "pop" /\ mt' # mt

\* C20: in each iteration the worker selects, among the streams that are not
\* done or have queued packets when it examines them, the one with the
\* smallest container-reported pts, the lowest index winning a tie; a stream
\* that is done and empty is never selected, a done stream with queued packets
\* is selectable like any other; the worker leaves only when no stream is
\* selectable; and when the queue of the selected stream is empty the worker
\* writes nothing and takes nothing in that iteration and selects again, also
\* when other streams have queued packets.
C20_SelectionRule ==
  /\ [][ScanStep =>
          IF Eligible(mt.i) /\ ContainerPts(mt.i) < mt.oldest_pts
          THEN mt'.oldest_stream = mt.i /\ mt'.oldest_pts = ContainerPts(mt.i)
          ELSE mt'.oldest_stream = mt.oldest_stream /\ mt'.oldest_pts = mt.oldest_pts]_vars
  /\ [][mt'.oldest_stream # mt.oldest_stream /\ mt'.oldest_stream # INVALID_STREAM
          => ScanStep /\ mt'.oldest_stream = mt.i /\ Eligible(mt.i)]_vars
  /\ [](mt.pc \in {"scan", "pop"} =>
          \A j \in 0 .. (Min(mt.i, container.nb_streams) - 1) :
            Eligible(j) =>
              /\ mt.oldest_stream # INVALID_STREAM
              /\ mt.oldest_pts = ContainerPts(mt.oldest_stream)
              /\ \/ mt.oldest_pts < ContainerPts(j)
                 \/ mt.oldest_pts = ContainerPts(j) /\ mt.oldest_stream <= j)
  /\ [][mt.pc = "scan" /\ mt'.pc = "done"
          => \A j \in 0 .. (container.nb_streams - 1) : ~Eligible(j)]_vars
  /\ [][PopStep /\ m_stream_data[mt.oldest_stream].m_packet_queue = <<>>
          => /\ mt' = MtLoopStart
             /\ container' = container
             /\ m_stream_data' = m_stream_data]_vars
  /\ [][PopStep /\ m_stream_data[mt.oldest_stream].m_packet_queue # <<>>
          => /\ mt'.pc = "write"
             /\ mt'.packet = Head(m_stream_data[mt.oldest_stream].m_packet_queue)]_vars

\* reached: the worker is about to look into the empty queue of the stream it
\* selected, stream 0 on a tie of pts with stream 1, while stream 1 is done
\* with a packet queued.
C20_Witness ==
  /\ mt.pc = "pop"
  /\ container.nb_streams = 2
  /\ mt.oldest_stream = 0
  /\ m_stream_data[0].m_packet_queue = <<>>
  /\ ContainerPts(0) = ContainerPts(1)
  /\ m_stream_data[1].m_is_done
  /\ m_stream_data[1].m_packet_queue # <<>>

\* ================================================ order of the destruction

\* the owner is past the join of ~Muxer: inside Free or done with it
InFree == owner.pc \in {"free", "free_encoders", "free_close", "freed"}

\* the muxer was started: its header write succeeded
WasStarted == \E j \in LogPositions("header") : container.log[j].ok

\* a step that hands the container a call of the given kind
ContainerCall(op) ==
  /\ Len(container'.log) = Len(container.log) + 1
  /\ container'.log[Len(container'.log)].op = op

\* a step that destroys an encoder
EncoderDestroyed ==
  \E i \in StreamIds : encoders'[i].state = "deleted" /\ encoders[i].state # "deleted"

LastWriteOfHeld(ok) ==
  /\ PacketEntries # <<>>
  /\ LET e == PacketEntries[Len(PacketEntries)]
     IN /\ e.ok = ok
        /\ e.stream = mt.oldest_stream
        /\ e.id = mt.packet.id

\* C22: a packet's free-on-destruct flag is set while it waits in a queue and
\* while the worker holds it before the write; the write step clears it when
\* and only when the container accepted the packet; after a failed write the
\* worker ends holding the packet with the flag still set.
C22_FlagClearedOnAcceptance ==
  /\ [](\A i \in StreamIds :
          \A k \in 1 .. Len(m_stream_data[i].m_packet_queue) :
            m_stream_data[i].m_packet_queue[k].free_on_destruct)
  /\ [](mt.pc = "write" => mt.packet # NoPacket /\ mt.packet.free_on_destruct)
  /\ [](mt.pc = "stats" =>
          mt.packet # NoPacket /\ ~mt.packet.free_on_destruct /\ LastWriteOfHeld(TRUE))
  /\ [](mt.pc = "error" =>
          mt.packet # NoPacket /\ mt.packet.free_on_destruct /\ LastWriteOfHeld(FALSE))
  /\ [][mt.pc = "write" /\ mt'.pc # "write" =>
          /\ mt'.packet.id = mt.packet.id
          /\ ContainerCall("packet")
          /\ mt'.packet.free_on_destruct = ~container'.log[Len(container'.log)].ok]_vars
  /\ [][mt.packet.id # 0 /\ mt'.packet.id = mt.packet.id
          /\ mt'.packet.free_on_destruct # mt.packet.free_on_destruct =>
            /\ mt.pc = "write"
            /\ mt.packet.free_on_destruct
            /\ container'.log[Len(container'.log)].ok]_vars

\* C22 witness: the first packet was accepted, the write of the second failed
\* and left its flag set, and a packet with its flag set is left in a queue
C22_Witness ==
  /\ mt.pc = "error"
  /\ mt.packet.free_on_destruct
  /\ Len(PacketEntries) = 2
  /\ PacketEntries[1].ok
  /\ \E i \in RegisteredStreams :
       /\ m_stream_data[i].m_packet_queue # <<>>
       /\ m_stream_data[i].m_packet_queue[1].free_on_destruct

\* ============================================== producer against the reader

\* a step of GrabFrame that stores into the descriptor or the payload of the
\* slot it claimed
GrabFrameStores == gf.pc \in {"info", "pixels", "cursor"} /\ gf'.pc # gf.pc

\* the slots whose descriptor or payload a step changes
SlotsChanged == {s \in Slots : frameinfo'[s] # frameinfo[s] \/ frames'[s] # frames[s]}

\* C23: every store of GrabFrame into a descriptor or a payload goes to the
\* slot write_pos mod ring_buffer_size, and that slot is neither among the
\* unread slots read_pos mod N, ..., (write_pos - 1) mod N nor the slot the
\* consumer is reading, whatever the consumer, which advances read_pos only
\* after reading the slot, has done in between.
C23_NoWriteIntoUnreadSlot ==
  /\ [][SlotsChanged # {} =>
          /\ GrabFrameStores
          /\ SlotsChanged = {header.write_pos % N}]_vars
  /\ [][GrabFrameStores =>
          /\ gf.write_pos = header.write_pos
          /\ header.write_pos % N \notin UnreadSlots
          /\ (consumer.pc \in {"info", "image", "advance"} =>
                consumer.slot # header.write_pos % N)
          /\ header' = header]_vars
  /\ [](consumer.pc \in {"info", "image", "advance"} =>
          /\ consumer.slot = header.read_pos % N
          /\ consumer.slot \in UnreadSlots)

\* C23 witness: in a ring of two slots the producer stores the pixels of its
\* third frame into slot 0, which the consumer has read and released, while
\* slot 1 is unread and the consumer is reading it
C23_Witness ==
  /\ N = 2
  /\ gf.pc = "pixels"
  /\ gf.write_pos = 2
  /\ frames[0].frame > 0
  /\ UnreadSlots = {1}
  /\ consumer.pc = "image"
  /\ consumer.slot = 1

\* ================================================= the completion flags

\* MuxerThread has returned
WorkerTerminated == mt.pc \in {"done", "error"}

\* a stream that is done and whose queue is empty
StreamFinished(i) ==
  m_stream_data[i].m_is_done /\ m_stream_data[i].m_packet_queue = <<>>

\* C24: m_is_done and m_error_occurred are both false until the worker
\* returns; each is set only by the step in which the worker returns, the
\* first by a selection that found every stream done with an empty queue, the
\* second by a failed write; neither is reset, also not by the destruction;
\* they are never both true; and after the worker returned exactly one of
\* them is true.
C24_CompletionFlags ==
  /\ [](~WorkerTerminated => ~muxer.m_is_done /\ ~muxer.m_error_occurred)
  /\ [](~(muxer.m_is_done /\ muxer.m_error_occurred))
  /\ [](mt.pc = "done" => muxer.m_is_done /\ ~muxer.m_error_occurred)
  /\ [](mt.pc = "error" => muxer.m_error_occurred /\ ~muxer.m_is_done)
  /\ [](mt.pc = "scan" /\ mt.oldest_stream = INVALID_STREAM =>
          \A i \in RegisteredStreams : i < mt.i => StreamFinished(i))
  /\ [][/\ muxer.m_is_done => muxer'.m_is_done
        /\ muxer.m_error_occurred => muxer'.m_error_occurred
        /\ WorkerTerminated => mt' = mt]_vars
  /\ [][muxer'.m_is_done /\ ~muxer.m_is_done =>
          /\ mt.pc = "scan" /\ mt'.pc = "done"
          /\ mt.i >= container.nb_streams
          /\ mt.oldest_stream = INVALID_STREAM
          /\ \A i \in RegisteredStreams : StreamFinished(i)
          /\ owner' = owner /\ encoders' = encoders]_vars
  /\ [][muxer'.m_error_occurred /\ ~muxer.m_error_occurred =>
          /\ mt.pc = "write" /\ mt'.pc = "error"
          /\ ContainerCall("packet")
          /\ ~container'.log[Len(container'.log)].ok
          /\ owner' = owner /\ encoders' = encoders]_vars

\* C24 witness: the worker of a two-stream muxer returned on its own after
\* writing packets of both streams, before any destruction: m_is_done alone
C24_Witness ==
  /\ owner.pc = "finishing"
  /\ mt.pc = "done"
  /\ muxer.m_is_done
  /\ ~muxer.m_error_occurred
  /\ container.nb_streams = 2
  /\ \A i \in RegisteredStreams : Len(StreamEntries(i)) >= 1
====
